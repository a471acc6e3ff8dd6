----------------------------- MODULE TerminalUi -----------------------------
(***************************************************************************)
(* The terminal interface of tui/app.rs and the chat session of            *)
(* tui/chat.rs: the state of the application and what keys, the mouse and  *)
(* commands do to it.  Drawing reads this state and changes none of it.    *)
(*                                                                         *)
(* A text is the sequence of what was typed, and a message its sender.  In *)
(* the command palette the name of a command is typed as one word, which   *)
(* stands for its letters.  The offset saturates at Top, 65535 in the      *)
(* code, which is a multiple of 3 too.  The welcome message, frames per    *)
(* second and the theme are left out.                                      *)
(***************************************************************************)
EXTENDS Integers, Sequences, SequencesExt

CONSTANTS
  Top,         \* the greatest offset
  MaxHistory,  \* messages a session keeps
  Words,       \* names of commands, known or not
  MaxTyped     \* bound of the model on the length of a text

TerminalAssumption ==
  Top \in Nat /\ Top >= 3 /\ MaxHistory \in Nat \ {0} /\ MaxTyped \in Nat

VARIABLES mode, tab, options, offset, commandInput, input, chat, shouldQuit

uiVars == <<mode, tab, options, offset, commandInput, input, chat, shouldQuit>>

Tabs == <<"Chat", "Models", "Sessions", "Settings">>
Characters == {"a", "q", "b", "l", "/", "?"}
Options == {"sidebar", "timestamps", "tokens"}

TerminalInit ==
  /\ mode = "Chat" /\ tab = 1 /\ options = {"sidebar", "tokens"} /\ offset = 0
  /\ commandInput = <<>> /\ input = <<>> /\ chat = <<>> /\ shouldQuit = FALSE

Up(n)   == IF n + 3 > Top THEN Top ELSE n + 3
Down(n) == IF n < 3 THEN 0 ELSE n - 3

\* add_message of several messages: the oldest make room.
Added(s) ==
  LET all == chat \o s
  IN  SubSeq(all, IF Len(all) > MaxHistory THEN Len(all) - MaxHistory + 1 ELSE 1, Len(all))

Toggle(o) == options' = (options \cup {o}) \ (options \cap {o})

-----------------------------------------------------------------------------
\* Each names what changes of mode, offset and chat, options and shouldQuit.
execute_command(word) ==
  \/ /\ word \in {"quit", "exit"} /\ shouldQuit' = TRUE
     /\ mode' = "Chat" /\ UNCHANGED <<offset, chat, options>>
  \/ /\ word = "clear" /\ chat' = <<>> /\ offset' = 0
     /\ mode' = "Chat" /\ UNCHANGED <<options, shouldQuit>>
  \/ /\ word = "help" /\ mode' = "Help"
     /\ UNCHANGED <<offset, chat, options, shouldQuit>>
  \/ /\ word \in Options /\ Toggle(word)
     /\ mode' = "Chat" /\ UNCHANGED <<offset, chat, shouldQuit>>
  \/ /\ word \notin {"quit", "exit", "clear", "help"} \cup Options
     /\ chat' = Added(<<"system">>)
     /\ mode' = "Chat" /\ UNCHANGED <<offset, options, shouldQuit>>

\* A prompt, and the placeholder that streams as its answer.  A command typed
\* in place of a prompt is executed.
Submit ==
  /\ input # <<>> /\ input' = <<>>
  /\ IF input[1] = "/"
     THEN execute_command(IF Len(input) = 2 THEN input[2] ELSE "") /\ UNCHANGED <<tab, commandInput>>
     ELSE /\ chat' = Added(<<"user", "assistant">>) /\ offset' = 0 /\ mode' = "Chat"
          /\ UNCHANGED <<tab, options, commandInput, shouldQuit>>

Type(c) ==
  \/ /\ c = "/" /\ input = <<>>
     /\ mode' = "CommandPalette" /\ commandInput' = <<>> /\ UNCHANGED input
  \/ /\ c = "?" /\ input = <<>>
     /\ mode' = "Help" /\ UNCHANGED <<commandInput, input>>
  \/ /\ c \notin {"/", "?"} \/ input # <<>>
     /\ Len(input) < MaxTyped /\ input' = Append(input, c)
     /\ mode' = "Chat" /\ UNCHANGED commandInput

\* Keys with Ctrl have their own meaning for b and l.
ControlKey(c) ==
  \/ c = "b" /\ Toggle("sidebar") /\ UNCHANGED <<offset, chat>>
  \/ c = "l" /\ chat' = <<>> /\ offset' = 0 /\ UNCHANGED options

\* What a chat and a scrolled chat have in common: typing.
TypingKey ==
  \/ Submit
  \/ input = <<>> /\ mode' = "Chat" /\ UNCHANGED <<tab, options, offset, commandInput, input, chat, shouldQuit>>
  \/ \E c \in Characters : Type(c) /\ UNCHANGED <<tab, options, offset, chat, shouldQuit>>
  \/ \E c \in {"b", "l"} :
       ControlKey(c) /\ mode' = "Chat" /\ UNCHANGED <<tab, commandInput, input, shouldQuit>>

Scrolls(to, there) ==
  /\ offset' = to /\ mode' = there
  /\ UNCHANGED <<tab, options, commandInput, input, chat, shouldQuit>>

ChatKey ==
  /\ mode = "Chat"
  /\ \/ TypingKey
     \/ /\ input # <<>> /\ input' = Front(input)
        /\ UNCHANGED <<mode, tab, options, offset, commandInput, chat, shouldQuit>>
     \/ Scrolls(Up(offset), "Scroll")
     \/ Scrolls(Down(offset), "Chat")
     \/ Scrolls(Top, "Chat") \/ Scrolls(0, "Chat")
     \/ /\ tab' \in {(tab % Len(Tabs)) + 1, ((tab + Len(Tabs) - 2) % Len(Tabs)) + 1}
        /\ UNCHANGED <<mode, options, offset, commandInput, input, chat, shouldQuit>>

\* Backspace does nothing in a scrolled chat.
ScrollKey ==
  /\ mode = "Scroll"
  /\ \/ TypingKey
     \/ Scrolls(Up(offset), "Scroll")
     \/ Scrolls(Down(offset), IF Down(offset) = 0 THEN "Chat" ELSE "Scroll")
     \/ Scrolls(Top, "Scroll") \/ Scrolls(0, "Chat")

\* Without input, Enter selects the first match, and all commands match.
CommandKey ==
  /\ mode = "CommandPalette"
  /\ UNCHANGED <<tab, input>>
  /\ \/ /\ mode' = "Chat" /\ commandInput' = <<>>
        /\ UNCHANGED <<options, offset, chat, shouldQuit>>
     \/ /\ commandInput' = <<>>
        /\ execute_command(CASE commandInput = <<>> -> "quit"
                             [] Len(commandInput) = 1 -> commandInput[1]
                             [] OTHER -> "")
     \/ /\ \/ commandInput # <<>> /\ commandInput' = Front(commandInput)
           \/ \E c \in Words : Len(commandInput) < MaxTyped /\ commandInput' = Append(commandInput, c)
        /\ UNCHANGED <<mode, options, offset, chat, shouldQuit>>

HelpKey ==
  /\ mode = "Help" /\ mode' = "Chat"
  /\ UNCHANGED <<tab, options, offset, commandInput, input, chat, shouldQuit>>

\* Fault: the wheel reaches the end without leaving the mode of scrolling.
handle_mouse_eventKeepsMode ==
  \/ Scrolls(Up(offset), IF mode = "Chat" THEN "Scroll" ELSE mode)
  \/ Scrolls(Down(offset), mode)

handle_mouse_event ==
  \/ Scrolls(Up(offset), IF mode = "Chat" THEN "Scroll" ELSE mode)
  \/ Scrolls(Down(offset), IF Down(offset) = 0 /\ mode = "Scroll" THEN "Chat" ELSE mode)

\* Ctrl+C and Ctrl+D in every mode.
Interrupt ==
  /\ shouldQuit' = TRUE
  /\ UNCHANGED <<mode, tab, options, offset, commandInput, input, chat>>

TerminalNext ==
  /\ ~shouldQuit
  /\ ChatKey \/ ScrollKey \/ CommandKey \/ HelpKey \/ handle_mouse_event \/ Interrupt

TerminalSpec == TerminalInit /\ [][TerminalNext]_uiVars

-----------------------------------------------------------------------------
Texts(s) == UNION {[1..n -> s] : n \in 0..MaxTyped}

TerminalTypeOK ==
  /\ mode \in {"Chat", "CommandPalette", "Help", "Scroll"}
  /\ tab \in DOMAIN Tabs /\ options \subseteq Options /\ offset \in 0..Top
  /\ commandInput \in Texts(Words) /\ input \in Texts(Characters)
  /\ chat \in Seq({"user", "assistant", "system"}) /\ Len(chat) <= MaxHistory
  /\ shouldQuit \in BOOLEAN

\* The chat is in the mode of scrolling only while it is scrolled away from its
\* end, whichever of keys, mouse and commands moved it; what was typed in the
\* palette does not outlive the palette.
ModesAgree ==
  /\ mode = "Scroll" => offset > 0
  /\ commandInput # <<>> => mode = "CommandPalette"

\* A text never begins with "/" or "?": these open the palette and the help.  So
\* the branch that executes a command typed in place of a prompt is dead.
PromptsArePlain == input # <<>> => input[1] \notin {"/", "?"}

\* A prompt keeps its answer, whatever is trimmed, cleared or typed in between.
PromptsAnswered ==
  \A i \in DOMAIN chat :
    chat[i] = "user" => i < Len(chat) /\ chat[i + 1] = "assistant"

TerminalSound == ModesAgree /\ PromptsArePlain /\ PromptsAnswered
=============================================================================
