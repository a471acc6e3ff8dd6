------------------------------- MODULE Stores -------------------------------
(***************************************************************************)
(* What the system stores: the response cache and the paged key-value      *)
(* cache an inference runs against, the file that the download manager     *)
(* fetches, the models on the disk with their rows in the database, the    *)
(* file of the hub client that lifecycle.rs pulls with, the scripts and    *)
(* outputs of the quantizer, and the model files that are read and         *)
(* written.  They share no state, so each behaviour exercises the one      *)
(* `part` selects.                                                         *)
(***************************************************************************)
EXTENDS InferenceCache, PagedKvCache, ModelStore, Quantizer, GgufFile

CONSTANTS
  FileSize, MaxRetries, MaxStarts,        \* of Download
  Pullers, Inodes, NoFile, Size, MaxPulls \* of HubDownload

VARIABLES
  part,
  honours, file, dlState, dlStage, offset, body, retries, starts,
  ranges, partial, final, content, pull, pulls, overlapped, resumed

Dl  == INSTANCE Download WITH Size <- FileSize
Hub == INSTANCE HubDownload

dlVars  == <<honours, file, dlState, dlStage, offset, body, retries, starts>>
hubVars == <<ranges, partial, final, content, pull, pulls, overlapped, resumed>>
mcVars  == <<part, cacheVars, kvVars, dlVars, storeVars, hubVars, quantVars, ggufVars>>

ASSUME StoresAssumption ==
  /\ KvAssumption /\ Dl!DownloadAssumption /\ StoreAssumption
  /\ Hub!HubAssumption /\ QuantizerAssumption /\ GgufAssumption

PartNames == {"cache", "pages", "file", "models", "hub", "quantizer", "gguf"}

\* Where a part does not move, one of its initial states is enough.
StoresInit ==
  /\ part \in PartNames
  /\ CacheInit /\ key = [t \in Threads |-> CHOOSE k \in Keys : TRUE]
  /\ KvInit
  /\ Dl!DownloadInit /\ (part # "file" => honours)
  /\ StoreInit
  /\ Hub!HubInit /\ (part # "hub" => ranges)
  /\ QuantInit
  /\ GgufInit
  /\ part # "gguf" =>
       LET h == CHOOSE h \in Headers : TRUE
       IN  original.header = <<h.magic, h.version, 0, 0>> /\ fields = <<>>

Stays(p) ==
  CASE p = "cache"     -> UNCHANGED cacheVars
    [] p = "pages"     -> UNCHANGED kvVars
    [] p = "file"      -> UNCHANGED dlVars
    [] p = "models"    -> UNCHANGED storeVars
    [] p = "hub"       -> UNCHANGED hubVars
    [] p = "quantizer" -> UNCHANGED quantVars
    [] p = "gguf"      -> UNCHANGED ggufVars

Of(p, A) == part = p /\ A /\ UNCHANGED part /\ \A q \in PartNames \ {p} : Stays(q)

StoresNext ==
  \/ Of("cache", CacheNext)
  \/ Of("pages", KvNext)
  \/ Of("file", Dl!DownloadNext)
  \/ Of("models", StoreNext)
  \/ Of("hub", Hub!HubNext)
  \/ Of("quantizer", QuantNext)
  \/ Of("gguf", GgufNext)

\* A call of the cache that was made is executed: its methods await nothing.
FairSpec ==
  /\ StoresInit /\ [][StoresNext]_mcVars
  /\ \A t \in Threads : WF_mcVars(Of("cache", Step(t)))

-----------------------------------------------------------------------------
TypesOK ==
  /\ CacheTypeOK /\ KvTypeOK /\ Dl!DownloadTypeOK /\ StoreTypeOK
  /\ Hub!HubTypeOK /\ QuantTypeOK /\ GgufTypeOK

\* What a download reports as complete, what the hub client gives the name of the
\* model, and what the reader of model files returns and its writer writes back is
\* the whole file, under the conditions of the three modules.
CompletedIsWhole == Dl!CompletedIsWhole /\ Hub!FinalIsWhole /\ ParsedIsWhole

-----------------------------------------------------------------------------
(***************************************************************************)
(* Values of the constants for the model checker.                          *)
(***************************************************************************)
\* The weights of the repositories differ in size; the format "gguf" leaves
\* out the configuration.
Sizes == [s \in Sources |->
            [f \in Files |->
               IF f = "config" THEN 1
               ELSE IF s = CHOOSE r \in Sources : TRUE THEN 2 ELSE 3]]
InFormat == [any |-> Files, gguf |-> {"weights"}]

\* All jobs but one use the same method with a script.
Methods == [j \in Jobs |-> IF j = CHOOSE k \in Jobs : TRUE THEN "gguf" ELSE "gptq"]

\* Files of this format or not, with values that are read as they are, arrays with and
\* without elements, and tensors of a known and of an unknown type.
ThreeHeaders == {[magic |-> Magic, version |-> 3], [magic |-> Magic, version |-> 4],
                 [magic |-> 0, version |-> 3]}
Bytes(s) == [i \in DOMAIN s |-> [tag |-> 0, data |-> s[i]]]
FiveValues == {[tag |-> 7, data |-> 2], [tag |-> 8, data |-> 5],
               [tag |-> 9, elem |-> 0, items |-> Bytes(<<1, 2>>)],
               [tag |-> 9, elem |-> 8, items |-> <<>>],
               [tag |-> 9, elem |-> 9, items |-> <<>>]}
TwoTensors == {[name |-> 3, dims |-> <<4, 4>>, type |-> 2, offset |-> 0],
               [name |-> 3, dims |-> <<>>, type |-> 4, offset |-> 0]}
=============================================================================
