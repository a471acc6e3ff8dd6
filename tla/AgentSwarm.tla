----------------------------- MODULE AgentSwarm -----------------------------
(***************************************************************************)
(* AgentSwarm::orchestrate of agents/swarm.rs: the agents execute a task   *)
(* one after the other, each with the whole timeout, and a strategy picks  *)
(* one of their outputs.  An agent is external: it answers with a content  *)
(* and a score, fails, or is timed out.  The check of max_agents, a        *)
(* comparison before anything runs, is left out.                           *)
(***************************************************************************)
EXTENDS Integers, Sequences, FiniteSets, SequencesExt, FiniteSetsExt

CONSTANTS
  AgentCount,  \* number of agents, from first to last
  Answers,     \* contents of outputs
  Scores       \* scores

Strategies == {"FirstComplete", "Majority", "BestScore"}

SwarmAssumption == AgentCount \in Nat \ {0} /\ Scores \subseteq Int

VARIABLES
  strategy,
  asked,      \* how many agents were executed
  outputs,    \* what those that answered returned
  consensus   \* {} before the end and when nothing was returned

swarmVars == <<strategy, asked, outputs, consensus>>

Output == [agent : 1..AgentCount, content : Answers, score : Scores]

SwarmInit ==
  /\ strategy \in Strategies
  /\ asked = 0 /\ outputs = <<>> /\ consensus = {}

\* FirstComplete stops at the first output.
Asking == asked < AgentCount /\ ~(strategy = "FirstComplete" /\ outputs # <<>>)

Answer ==
  /\ Asking
  /\ asked' = asked + 1
  /\ \E c \in Answers, s \in Scores :
       outputs' = Append(outputs, [agent |-> asked', content |-> c, score |-> s])
  /\ UNCHANGED <<strategy, consensus>>

FailOrTimeOut ==
  /\ Asking
  /\ asked' = asked + 1
  /\ UNCHANGED <<strategy, outputs, consensus>>

\* max_by returns the last of several greatest.
Best ==
  Max({i \in DOMAIN outputs : \A j \in DOMAIN outputs : outputs[j].score <= outputs[i].score})

Votes(c) == Cardinality({i \in DOMAIN outputs : outputs[i].content = c})

\* The first output of a content stands for it.
Representative(c) == Min({i \in DOMAIN outputs : outputs[i].content = c})

\* Contents are visited in the arbitrary order of a hash map, so that of several
\* with the most votes any may come last.
select_consensus ==
  CASE strategy = "FirstComplete" -> {1}
    [] strategy = "BestScore"     -> {Best}
    [] strategy = "Majority"      ->
         {Representative(outputs[i].content) :
            i \in {j \in DOMAIN outputs : \A k \in DOMAIN outputs :
                     Votes(outputs[k].content) <= Votes(outputs[j].content)}}

Decide ==
  /\ ~Asking /\ outputs # <<>> /\ consensus = {}
  /\ \E i \in select_consensus : consensus' = {outputs[i]}
  /\ UNCHANGED <<strategy, asked, outputs>>

SwarmNext == Answer \/ FailOrTimeOut \/ Decide

SwarmSpec == SwarmInit /\ [][SwarmNext]_swarmVars

-----------------------------------------------------------------------------
SwarmTypeOK ==
  /\ strategy \in Strategies /\ asked \in 0..AgentCount
  /\ outputs \in Seq(Output) /\ Len(outputs) <= asked
  /\ consensus \subseteq Output /\ Cardinality(consensus) <= 1

\* The output that was picked is one that was returned, and none stands against
\* it: no better score, no content with more votes, no earlier answer.
ConsensusStands ==
  \A c \in consensus :
    /\ c \in ToSet(outputs)
    /\ \A i \in DOMAIN outputs :
         /\ strategy = "BestScore" => outputs[i].score <= c.score
         /\ strategy = "Majority" => Votes(outputs[i].content) <= Votes(c.content)
         /\ strategy # "BestScore" /\ outputs[i].content = c.content => c.agent <= outputs[i].agent

\* With a majority of all that answered, the choice is not left to the hash map.
MajorityWins ==
  strategy = "Majority" =>
    \A c \in Answers, d \in consensus : 2 * Votes(c) > Len(outputs) => d.content = c

SwarmSound == ConsensusStands /\ MajorityWins
=============================================================================
