----------------------------- MODULE Rationing -----------------------------
(***************************************************************************)
(* The parts that ration what the server has, and those that choose: the   *)
(* resource manager, the pools of connections and of model instances, the  *)
(* rate limiter, the retries of the proxy, the sessions of the web widget, *)
(* the router of A/B tests, the sampler and the grammar of JSON.  They     *)
(* share no state, so each behaviour exercises the one `part` selects.     *)
(***************************************************************************)
EXTENDS ResourceManager, RateLimiter, Proxy, WebWidget, Pools

CONSTANTS
  Period, Shares, Speeds, MaxRequests,             \* of AbRouter
  Vocabulary, Logits, Histories, Settings, Whole,  \* of Sampler
  Nesting, MaxToken                                \* of JsonGrammar

VARIABLES
  part,
  percentageA, enabled, requestCount, routed, metrics, verdict,
  params, logits, previous, samplerStage, weights, totalMass, draw, token,
  document, outputSoFar, depth, inString, escaped

Router  == INSTANCE AbRouter
Sampled == INSTANCE Sampler WITH stage <- samplerStage
Grammar == INSTANCE JsonGrammar

ASSUME RationingAssumption ==
  /\ Router!RouterAssumption /\ Sampled!SamplerAssumption /\ Grammar!GrammarAssumption
  /\ LimiterAssumption /\ ProxyAssumption /\ WidgetAssumption /\ PoolAssumption

PartNames == {"manager", "connections", "instances", "limiter", "proxy", "widget",
          "router", "sampler", "grammar"}

routerVars  == <<percentageA, enabled, requestCount, routed, metrics, verdict>>
samplerVars == <<params, logits, previous, samplerStage, weights, totalMass, draw, token>>
grammarVars == <<document, outputSoFar, depth, inString, escaped>>
mcVars   == <<part, rmVars, poolVars, mpVars, limiterVars, proxyVars, widgetVars,
              routerVars, samplerVars, grammarVars>>

\* Where a part does not move, one of its initial states is enough.
RationingInit ==
  /\ part \in PartNames
  /\ RMInit /\ PoolInit /\ MpInit /\ LimiterInit
  /\ ProxyInit /\ WidgetInit
  /\ Router!RouterInit /\ (part # "router" => percentageA = 0)
  /\ Sampled!SamplerInit
  /\ part # "sampler" =>
       params.greedy /\ previous = <<>> /\ \A t \in DOMAIN logits : logits[t] = 0
  /\ document \in IF part = "grammar" THEN Grammar!Documents ELSE {<<"lbracket", "rbracket">>}
  /\ Grammar!GrammarInit

Stays(p) ==
  CASE p = "manager"     -> UNCHANGED rmVars
    [] p = "connections" -> UNCHANGED poolVars
    [] p = "instances"   -> UNCHANGED mpVars
    [] p = "limiter"     -> UNCHANGED limiterVars
    [] p = "proxy"       -> UNCHANGED proxyVars
    [] p = "widget"      -> UNCHANGED widgetVars
    [] p = "router"      -> UNCHANGED routerVars
    [] p = "sampler"     -> UNCHANGED samplerVars
    [] p = "grammar"     -> UNCHANGED grammarVars

Of(p, A) == part = p /\ A /\ UNCHANGED part /\ \A q \in PartNames \ {p} : Stays(q)

RationingNext ==
  \/ Of("manager", RMNext)
  \/ Of("connections", PoolNext)
  \/ Of("instances", MpNext)
  \/ Of("limiter", LimiterNext)
  \/ Of("proxy", ProxyNext)
  \/ Of("widget", WidgetNext)
  \/ Of("router", Router!RouterNext)
  \/ Of("sampler", Sampled!SamplerNext)
  \/ Of("grammar", Grammar!GrammarNext)

\* The fairness of the manager (see RMSpec).
FairSpec ==
  /\ RationingInit /\ [][RationingNext]_mcVars
  /\ WF_mcVars(Of("manager", Receive))
  /\ \A c \in Callers : WF_mcVars(Of("manager", Enforcement(c)))

-----------------------------------------------------------------------------
TypesOK ==
  /\ RMTypeOK /\ PoolTypeOK /\ MpTypeOK /\ LimiterTypeOK
  /\ ProxyTypeOK /\ WidgetTypeOK /\ Router!RouterTypeOK /\ Sampled!SamplerTypeOK
  /\ Grammar!GrammarTypeOK

\* A request goes to the model its number selects in the long run too, the token
\* of an answer is drawn from what the filters left, in proportion, and the
\* grammar lets every JSON document be written to its end.
ChoicesSound == Router!SplitIsKept /\ Sampled!SamplingSound /\ Grammar!GrammarSound

-----------------------------------------------------------------------------
(***************************************************************************)
(* Values of the constants for the model checker.                          *)
(***************************************************************************)
FourUnits  == [m \in Models |-> 4]
FewLogits  == {-1, 0, 2}
TwoHistories == {<<>>, <<3, 2, 3, 9>>}

\* One set of parameters for each filter alone and some for several in a row;
\* the last has a min_p that no token reaches.
Sampling(greedy, k, p, m, repetition, frequency, presence) ==
  [greedy |-> greedy, top_k |-> k, top_p |-> p, min_p |-> m,
   repetition |-> repetition, frequency |-> frequency, presence |-> presence]

SixSettings ==
  {Sampling(TRUE, 0, 4, 0, 2, 1, 1), Sampling(FALSE, 1, 4, 0, 2, 0, 0),
   Sampling(FALSE, 1, 3, 0, 1, 1, 1), Sampling(FALSE, 0, 2, 0, 1, 0, 0),
   Sampling(FALSE, 9, 3, 2, 2, 0, 1), Sampling(FALSE, 1, 3, 6, 1, 0, 0)}
=============================================================================
