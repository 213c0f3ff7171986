---------------------------- MODULE CloudDetector ----------------------------
(***************************************************************************)
(* One Detector (internal/clouddetect/detect.go): the cache under an       *)
(* RWMutex and the probing of the providers' metadata services, one after  *)
(* the other, until one answers (detect_*.go).                             *)
(*                                                                         *)
(* In the program every Detector is used by one goroutine for one Detect,  *)
(* and only a test calls Reset.  With more Callers, or with resets, the    *)
(* module says what the type's mutex and cache promise beyond that use.    *)
(*                                                                         *)
(* Time is counted in timeouts of the HTTP client, 2 s each.  A caller's   *)
(* context ends after Budget of them: both agents and the enrichment give  *)
(* Detect 10 s.  A request to an endpoint that hangs costs one; one that   *)
(* is answered or refused costs none.                                      *)
(***************************************************************************)
EXTENDS Integers, FiniteSets, CloudEnvironment

CONSTANTS
    Callers,       \* goroutines, each calling Detect once; one in the program
    Nobody,        \* a free mutex
    None,          \* a nil *CloudEnvironment
    Budget,        \* timeouts a caller's context lasts
    Nets,          \* how the metadata endpoints of a machine may behave
    SignalSets,    \* and which signals it may have
    MaxResets      \* bound: calls of Reset; none in the program

\* The order in which NewDetector registers the providers.
Providers == <<"aws", "gcp", "azure", "alibaba_cloud", "oci", "digitalocean", "vultr">>
Index == 1 .. 7
OnPrem == 8

\* How a metadata endpoint treats requests: "flaky" differs from one to the next.
Behaviours == {"prompt", "refuses", "hangs", "flaky"}

\* Environment variables and files the detectors look at.
Signals == {"lambda", "beanstalk", "ecs", "kubernetes", "run", "functions",
            "appengine"} \cup CrossCutting

ASSUME CallersAssumption == Nobody \notin Callers
ASSUME NoneAssumption == None \notin CloudEnvironments
ASSUME BoundsAssumption == Budget \in Nat /\ MaxResets \in Nat
ASSUME WorldsAssumption ==
    Nets \subseteq [Index -> Behaviours] /\ SignalSets \subseteq SUBSET Signals

VARIABLES
    net,         \* the behaviour of each provider's endpoint
    signals,     \* those that are present
    mu, cached,  \* the mutex's writer, the cache
    pc, next,    \* each caller, and the provider it asks
    env, result, \* what it has detected, what it returns
    spent,       \* timeouts used of its context
    waited,      \* those spent waiting for the mutex
    cancelled,   \* its context is cancelled before that
    raced,       \* calls during which Reset was called
    resets

world == <<net, signals>>
call == <<pc, next, env, result>>
context == <<spent, waited, cancelled>>
vars == <<world, mu, cached, call, context, raced, resets>>

Init ==
    /\ net \in Nets /\ signals \in SignalSets
    /\ mu = Nobody /\ cached = None
    /\ pc = [c \in Callers |-> "idle"] /\ next = [c \in Callers |-> 1]
    /\ env = [c \in Callers |-> None] /\ result = [c \in Callers |-> None]
    /\ spent = [c \in Callers |-> 0] /\ waited = [c \in Callers |-> 0]
    /\ cancelled = [c \in Callers |-> FALSE]
    /\ raced = {} /\ resets = 0
-----------------------------------------------------------------------------
Goes(c, from, to) == pc[c] = from /\ pc' = [pc EXCEPT ![c] = to]

Returns(c, e) == result' = [result EXCEPT ![c] = e]

Call(c) ==
    /\ Goes(c, "idle", "look")
    /\ UNCHANGED <<world, mu, cached, next, env, result, context, raced, resets>>

\* Under the read lock: is there a cached environment?
Look(c) ==
    /\ mu = Nobody
    /\ \/ Goes(c, "look", "reread") /\ cached # None
       \/ Goes(c, "look", "lock") /\ cached = None
    /\ UNCHANGED <<world, mu, cached, next, env, result, context, raced, resets>>

\* If so, it is read again to be returned, after the read lock was released.
Reread(c) ==
    /\ Goes(c, "reread", "returned")
    /\ Returns(c, cached)
    /\ UNCHANGED <<world, mu, cached, next, env, context, raced, resets>>

\* Mutant: the second look at the cache is left out.
LockOnly(c) ==
    /\ mu = Nobody
    /\ Goes(c, "lock", "ask") /\ mu' = c /\ UNCHANGED result
    /\ waited' = [waited EXCEPT ![c] = spent[c]]
    /\ UNCHANGED <<world, cached, next, env, spent, cancelled, raced, resets>>

\* The write lock, and a second look at the cache: return it or start probing.
Lock(c) ==
    /\ mu = Nobody
    /\ \/ /\ Goes(c, "lock", "returned") /\ cached # None
          /\ UNCHANGED mu /\ Returns(c, cached)
       \/ /\ Goes(c, "lock", "ask") /\ cached = None
          /\ mu' = c /\ UNCHANGED result
    /\ waited' = [waited EXCEPT ![c] = spent[c]]
    /\ UNCHANGED <<world, cached, next, env, spent, cancelled, raced, resets>>
-----------------------------------------------------------------------------
\* t timeouts pass, for c and for those who wait for its mutex, up to the end
\* of their contexts.
Passes(c, t) ==
    LET Later(n) == IF n + t < Budget THEN n + t ELSE Budget
    IN  spent' = [d \in Callers |->
                     IF d = c \/ pc[d] \in {"look", "lock"} THEN Later(spent[d])
                     ELSE spent[d]]

InTime(c) == spent[c] < Budget /\ ~cancelled[c]

\* A request to the endpoint of next[c] is answered, or it fails.
Answered(c) ==
    /\ net[next[c]] \in {"prompt", "flaky"} /\ InTime(c)
    /\ UNCHANGED spent

\* Mutant: a request that hangs uses up two timeouts.
FailedSlowly(c) ==
    \/ net[next[c]] \in {"refuses", "flaky"} /\ UNCHANGED spent
    \/ ~InTime(c) /\ UNCHANGED spent
    \/ net[next[c]] \in {"hangs", "flaky"} /\ InTime(c) /\ Passes(c, 2)

Failed(c) ==
    \/ net[next[c]] \in {"refuses", "flaky"} /\ UNCHANGED spent
    \/ ~InTime(c) /\ UNCHANGED spent
    \/ net[next[c]] \in {"hangs", "flaky"} /\ InTime(c) /\ Passes(c, 1)

\* The first present signal decides; with none, the default does.
AWSComputes ==
    IF "beanstalk" \in signals THEN {"elastic_beanstalk"}
    ELSE IF "ecs" \in signals THEN {"ecs", "fargate"}
    ELSE IF "kubernetes" \in signals THEN {"eks"} ELSE {"ec2"}

GCPComputes ==
    IF "run" \in signals THEN {"cloud_run"}
    ELSE IF "functions" \in signals THEN {"cloud_functions"}
    ELSE IF "appengine" \in signals THEN {"app_engine"}
    ELSE IF "kubernetes" \in signals THEN {"gke"} ELSE {"gce"}

OnKubernetes(yes, no) == IF "kubernetes" \in signals THEN {yes} ELSE {no}

\* Mutant: a cluster outside the clouds is taken for one of Azure's.
ComputesMixed ==
    <<AWSComputes, GCPComputes, OnKubernetes("aks", "azure_vm"), {"alibaba_ecs"},
      {"oci"}, {"digitalocean"}, {"vultr"}, OnKubernetes("aks", "bare_metal")>>

\* classifyComputeType, or the constant of the simpler detectors.
Computes ==
    <<AWSComputes, GCPComputes, OnKubernetes("aks", "azure_vm"), {"alibaba_ecs"},
      {"oci"}, {"digitalocean"}, {"vultr"}, OnKubernetes("kubernetes", "bare_metal")>>

\* The environment as it will be published, with the cross-cutting signals.
Detected(c, i, computes) ==
    \E compute \in computes :
        env' = [env EXCEPT ![c] =
                   [provider |-> IF i = OnPrem THEN "on-prem" ELSE Providers[i],
                    compute |-> compute, flags |-> signals \cap CrossCutting]]

\* The detector of next[c] has answered its first questions: the requests for
\* the rest may take any time, and their failure is not one of the detection.
Finds(c, from) ==
    /\ Goes(c, from, "publish") /\ Detected(c, next[c], Computes[next[c]])
    /\ UNCHANGED <<next, result, waited, cancelled>>

Skips(c, from) ==
    /\ Goes(c, from, "ask") /\ next' = [next EXCEPT ![c] = @ + 1]
    /\ UNCHANGED <<env, result, waited, cancelled>>

\* AWS: in a Lambda function nothing is asked...
AsksNobody(c) ==
    /\ next[c] = 1 /\ "lambda" \in signals
    /\ Goes(c, "ask", "publish") /\ Detected(c, 1, {"lambda"})
    /\ UNCHANGED <<next, result, context>>

\* ... and without a token the ECS variable decides.
AsksForToken(c) ==
    /\ next[c] = 1 /\ "lambda" \notin signals
    /\ \/ /\ Answered(c) /\ Goes(c, "ask", "identity")
          /\ UNCHANGED <<next, env, result, waited, cancelled>>
       \/ /\ Failed(c) /\ "ecs" \in signals
          /\ Goes(c, "ask", "publish") /\ Detected(c, 1, {"ecs", "fargate"})
          /\ UNCHANGED <<next, result, waited, cancelled>>
       \/ Failed(c) /\ "ecs" \notin signals /\ Skips(c, "ask")

\* The identity document of AWS, the one question of every other provider.
Asks(c) ==
    \E from \in {"ask", "identity"} :
        /\ next[c] \in Index /\ (from = "identity" <=> next[c] = 1)
        /\ \/ Answered(c) /\ Finds(c, from)
           \/ Failed(c) /\ Skips(c, from)

\* No provider: the machine is on premises.
GivesUp(c) ==
    /\ next[c] = OnPrem /\ UNCHANGED spent
    /\ Finds(c, "ask")

\* Three providers have more to say, on networks and zones, which takes time.
AsksOn(c) ==
    /\ pc[c] = "publish" /\ env[c].provider \in {"aws", "gcp", "alibaba_cloud"}
    /\ env[c].compute # "lambda" /\ InTime(c) /\ Passes(c, 1)
    /\ UNCHANGED <<call, waited, cancelled>>

Probe(c) ==
    /\ AsksNobody(c) \/ AsksForToken(c) \/ Asks(c) \/ GivesUp(c) \/ AsksOn(c)
    /\ UNCHANGED <<world, mu, cached, raced, resets>>

\* Mutant: the mutex is not released.
PublishLocked(c) ==
    /\ Goes(c, "publish", "returned")
    /\ cached' = env[c] /\ UNCHANGED mu /\ Returns(c, env[c])
    /\ UNCHANGED <<world, next, env, context, raced, resets>>

\* The cache is written, the mutex released and the environment returned.
Publish(c) ==
    /\ Goes(c, "publish", "returned")
    /\ cached' = env[c] /\ mu' = Nobody /\ Returns(c, env[c])
    /\ UNCHANGED <<world, next, env, context, raced, resets>>
-----------------------------------------------------------------------------
InCall(c) == pc[c] \notin {"idle", "returned"}

Reset ==
    /\ mu = Nobody /\ resets < MaxResets /\ resets' = resets + 1
    /\ cached' = None
    /\ raced' = raced \cup {c \in Callers : InCall(c)}
    /\ UNCHANGED <<world, mu, call, context>>

\* The context a caller derived its own from is cancelled: the agent stops.
Cancel(c) ==
    /\ InCall(c) /\ cancelled' = [cancelled EXCEPT ![c] = TRUE]
    /\ UNCHANGED <<world, mu, cached, call, spent, waited, raced, resets>>

Detect(c) == Look(c) \/ Reread(c) \/ Lock(c) \/ Probe(c) \/ Publish(c)

\* Everybody has returned.
Ended == (\A c \in Callers : pc[c] = "returned") /\ UNCHANGED vars

Next ==
    \/ Reset \/ Ended
    \/ \E c \in Callers : Call(c) \/ Detect(c) \/ Cancel(c)

\* A goroutine that can take a step eventually takes one; requests end.
Spec == Init /\ [][Next]_vars /\ \A c \in Callers : WF_vars(Detect(c))
-----------------------------------------------------------------------------
\* Every variable has its type: in particular compute types and providers go
\* together, and no context outlasts its deadline.
TypeOK ==
    /\ net \in Nets /\ signals \in SignalSets
    /\ mu \in Callers \cup {Nobody} /\ cached \in CloudEnvironments \cup {None}
    /\ pc \in [Callers -> {"idle", "look", "reread", "lock", "ask", "identity",
                           "publish", "returned"}]
    /\ next \in [Callers -> 1 .. OnPrem]
    /\ env \in [Callers -> CloudEnvironments \cup {None}]
    /\ result \in [Callers -> CloudEnvironments \cup {None}]
    /\ spent \in [Callers -> 0 .. Budget] /\ waited \in [Callers -> 0 .. Budget]
    /\ cancelled \in [Callers -> BOOLEAN]
    /\ raced \subseteq Callers /\ resets \in 0 .. MaxResets

\* The endpoints before provider i that can cost a timeout.
Slow(i) == {j \in Index : j < i /\ net[j] \in {"hangs", "flaky"}}

\* The machine's own provider is found, whatever the seven endpoints asked under
\* one deadline do: one that always answers is not passed over, unless those before it can
\* use up the time that waiting for the mutex has left.
EarliestFound ==
    \A c \in Callers, i \in Index :
        /\ pc[c] = "publish" /\ ~cancelled[c]
        /\ net[i] = "prompt" /\ waited[c] + Cardinality(Slow(i)) < Budget
        => next[c] <= i

\* A call of Detect returns, whatever the endpoints and the other callers do.
CallsReturn == \A c \in Callers : InCall(c) ~> pc[c] = "returned"

Once == INSTANCE DetectOnce WITH
    Environments <- CloudEnvironments,
    decision <- cached, answer <- result, stale <- raced,
    phase <- [c \in Callers |-> IF pc[c] = "idle" THEN "idle"
                                ELSE IF pc[c] = "returned" THEN "answered" ELSE "asked"]

\* The contract of the type: between two Resets there is one verdict, whoever asks
\* and whenever, and a call is left without one only if a Reset met it.
DecidesOnce == Once!Spec
=============================================================================
