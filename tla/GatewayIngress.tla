--------------------------- MODULE GatewayIngress ---------------------------
(***************************************************************************)
(* The message hooks of the plugin and the learned route.                  *)
(*                                                                         *)
(* Covered: both message hooks, one step per access to the route file and  *)
(* per call that may raise; a gateway message, which Hermes hands to both  *)
(* of them, and a CLI turn, which it hands to the second; several hooks at *)
(* once, each replacing the file through one temporary name; a write that  *)
(* fails, a producer that cannot be reached, a trace that cannot be        *)
(* written, a crash at any step; RouteStore.invalidate; the status of a    *)
(* route as time passes; the target the Contact service would take, and    *)
(* what Doctor says of it.                                                 *)
(*                                                                         *)
(* Submitting a percept is one step here (PerceptDelivery has the rest),   *)
(* session routes are in OwnerDecision, the evidence a hook records first  *)
(* in CompatibilityEvidence.  Left out: what the records contain, file     *)
(* modes, a clock that is set back.                                        *)
(***************************************************************************)
EXTENDS PrivateFile, FiniteSets

CONSTANTS
    Hosts,       \* processes and threads that run a hook
    Messages,    \* owner messages, each of them one Hermes turn
    TargetOf,    \* exact route a gateway message names, or NoRoute; or Cli
    Cli,         \* a turn of the command line
    NoRoute,     \* a gateway message that names no delivery target
    Targets,     \* exact targets
    PlatformOf,  \* platform of a target; a platform label is its own
    LengthOf,    \* length of the route text of a message
    Configured,  \* config.contact_target: a target, a label, or Unset
    Unset,
    MaxAge,      \* config.route_max_age_seconds
    MaxTime,     \* bound: how far the clock runs
    MayCrash,    \* whether processes crash
    MaxTurns     \* bound: messages of one behaviour

Platforms == {PlatformOf[t] : t \in Targets}
Invalidation == "invalidate"
Hooks == {"pre_gateway_dispatch", "pre_llm_call"}

\* What the route file holds, as a reader parses it and as text.
RouteDoc == [turn : Messages, target : Targets, at : 0..MaxTime, valid : BOOLEAN]
RouteText == [doc : RouteDoc \cup {NoDoc}, size : Nat]

ASSUME IngressAssumption ==
    /\ TargetOf \in [Messages -> Targets \cup {Cli, NoRoute}]
    /\ LengthOf \in [Messages -> Nat]
    /\ DOMAIN PlatformOf = Targets \cup Platforms
    /\ \A p \in Platforms : PlatformOf[p] = p
    /\ Cli # NoRoute
    /\ {Cli, NoRoute, "auto", "refused"} \cap (Targets \cup Platforms) = {}
    /\ Configured \in Targets \cup Platforms \cup {Unset}
    /\ Invalidation \notin Messages
    /\ NoDoc \notin RouteDoc /\ Gone \notin RouteText \cup (0..MaxTime)
    /\ MaxAge \in Nat /\ MaxTime \in Nat /\ MayCrash \in BOOLEAN /\ MaxTurns \in Nat

VARIABLES
    route,       \* last-gateway-route.json
    pc,          \* where each hook is
    turn,        \* the message or invalidation it handles
    draft,       \* the route it is about to write
    clock,
    called,      \* Hermes: the hooks it has called for a message
    stamped,     \* ghost: when RouteStore.save stamped the route of a message
    submitted,   \* ghost: percepts submitted for a message
    revoked,     \* ghost: messages whose route has been invalidated
    overlapped   \* ghost: two writers have been at the file together

local == <<pc, turn, draft>>
ghost == <<stamped, submitted, revoked, overlapped>>
vars  == <<route, local, clock, called, ghost>>

Gateway(m) == TargetOf[m] # Cli

Route(m, at) == [turn |-> m, target |-> TargetOf[m], at |-> at, valid |-> TRUE]

Init ==
    /\ route = NewFile
    /\ pc = [w \in Hosts |-> "idle"]
    /\ turn = [w \in Hosts |-> Invalidation]
    /\ draft = [w \in Hosts |-> Empty]
    /\ clock = 0
    /\ called = [m \in Messages |-> {}]
    /\ stamped = [m \in Messages |-> Gone]
    /\ submitted = [m \in Messages |-> 0]
    /\ revoked = {} /\ overlapped = FALSE
-----------------------------------------------------------------------------
(* The message hooks *)

Goto(w, next) == pc' = [pc EXCEPT ![w] = next]

\* The hook returns; whatever happened, Hermes gets its "allow".
Return(w) ==
    /\ Goto(w, "idle")
    /\ turn' = [turn EXCEPT ![w] = Invalidation]
    /\ draft' = [draft EXCEPT ![w] = Empty]

AtRoute == {"open_route", "write_route", "replace_route"}

\* w starts on the route file.
Enter(w, what, text) ==
    /\ turn' = [turn EXCEPT ![w] = what]
    /\ draft' = [draft EXCEPT ![w] = text]
    /\ overlapped' = (overlapped \/ \E v \in Hosts \ {w} : pc[v] \in AtRoute)
    /\ Goto(w, "open_route")

\* Hermes calls a hook once for a message; the hook takes the message up.
Called(m, hook) ==
    /\ hook \notin called[m]
    /\ Cardinality({n \in Messages \ {m} : called[n] # {}}) < MaxTurns
    /\ called' = [called EXCEPT ![m] = @ \cup {hook}]

TakeUp(w, m, next) ==
    /\ turn' = [turn EXCEPT ![w] = m]
    /\ Goto(w, next)
    /\ UNCHANGED <<route, draft, clock, ghost>>

\* on_pre_gateway_dispatch; recording evidence has a try block of its own.
PreGatewayDispatch(w, m) ==
    /\ pc[w] = "idle" /\ Gateway(m)
    /\ Called(m, "pre_gateway_dispatch")
    /\ TakeUp(w, m, "gateway")

\* Mutant: the platform is not looked at.
PreLlmCallAnyPlatform(w, m) ==
    /\ pc[w] = "idle"
    /\ Gateway(m) => "pre_gateway_dispatch" \in called[m]
    /\ Called(m, "pre_llm_call")
    /\ TakeUp(w, m, "cli")

\* on_pre_llm_call, which Hermes calls for every turn, a gateway message's after
\* the dispatch: that one it returns from, because of its platform.
PreLlmCall(w, m) ==
    /\ pc[w] = "idle"
    /\ Gateway(m) => "pre_gateway_dispatch" \in called[m]
    /\ Called(m, "pre_llm_call")
    /\ IF Gateway(m)
       THEN UNCHANGED <<route, local, clock, ghost>>
       ELSE TakeUp(w, m, "cli")

Advising == {"gateway", "cli"}

\* note_context_activity, observe_owner_discussion or a trace line that comes
\* before the route raises: the hook ends.
AdviceFails(w) ==
    /\ pc[w] \in Advising
    /\ Return(w)
    /\ UNCHANGED <<route, clock, called, ghost>>

\* They are disabled or done.  cli_turn has no route to store, nor has
\* gateway_message when the message names no delivery target.
AdviseOnly(w) ==
    /\ \/ pc[w] = "cli"
       \/ pc[w] = "gateway" /\ TargetOf[turn[w]] = NoRoute
    /\ Goto(w, "submit")
    /\ UNCHANGED <<route, turn, draft, clock, called, ghost>>

\* Mutant: the percept is submitted before the route is stored.
AdviseGatewayFirst(w) ==
    /\ pc[w] = "gateway" /\ TargetOf[turn[w]] # NoRoute
    /\ Goto(w, "submit")
    /\ UNCHANGED <<route, turn, draft, clock, called, ghost>>

\* RouteStore.save stamps the route before it writes.
AdviseGateway(w) ==
    /\ pc[w] = "gateway" /\ TargetOf[turn[w]] # NoRoute
    /\ stamped' = [stamped EXCEPT ![turn[w]] = clock]
    /\ Enter(w, turn[w], Text(Route(turn[w], clock), LengthOf[turn[w]]))
    /\ UNCHANGED <<route, clock, called, submitted, revoked>>

\* Mutant: the live file itself is opened.
OpenRouteInPlace(w) ==
    /\ pc[w] = "open_route"
    /\ route' = [route EXCEPT !.live = Empty, !.atLive = @ \cup {w}, !.tmp = Empty]
    /\ Goto(w, "write_route")
    /\ UNCHANGED <<turn, draft, clock, called, ghost>>

OpenRoute(w) ==
    /\ pc[w] = "open_route"
    /\ route' = Opened(route, w)
    /\ Goto(w, "write_route")
    /\ UNCHANGED <<turn, draft, clock, called, ghost>>

WriteRoute(w) ==
    /\ pc[w] = "write_route"
    /\ route' = Written(route, w, draft[w])
    /\ Goto(w, "replace_route")
    /\ UNCHANGED <<turn, draft, clock, called, ghost>>

ReplaceRoute(w) ==
    /\ pc[w] = "replace_route"
    /\ CanReplace(route)
    /\ route' = Replaced(route)
    /\ IF turn[w] = Invalidation
       THEN revoked' = revoked \cup {draft[w].doc.turn} /\ Return(w)
       ELSE Goto(w, "submit") /\ UNCHANGED <<turn, draft, revoked>>
    /\ UNCHANGED <<clock, called, stamped, submitted, overlapped>>

\* The disk is full, or another writer has renamed the temporary file: the
\* exception leaves gateway_message, so nothing is submitted.
RouteFails(w) ==
    /\ pc[w] \in AtRoute
    /\ route' = Abandoned(route, w)
    /\ Return(w)
    /\ UNCHANGED <<clock, called, ghost>>

\* PerceptReliabilityExecutor.submit; _deliver catches whatever it raises.
Submit(w) ==
    /\ pc[w] = "submit"
    /\ submitted' = [submitted EXCEPT ![turn[w]] = @ + 1]
    /\ Return(w)
    /\ UNCHANGED <<route, clock, called, stamped, revoked, overlapped>>

\* normalize_gateway, normalize_cli or a trace line of _deliver raises before
\* the percept is submitted; the route is stored.
SubmitFails(w) ==
    /\ pc[w] = "submit"
    /\ Return(w)
    /\ UNCHANGED <<route, clock, called, ghost>>

\* RouteStore.invalidate(): reads, changes and replaces the file, whose text
\* gets longer.  (A route already invalid would only be stamped again.)
Invalidate(w) ==
    /\ pc[w] = "idle"
    /\ Loaded(route) # NoDoc /\ Loaded(route).valid
    /\ Enter(w, Invalidation, Text([Loaded(route) EXCEPT !.valid = FALSE],
                                   LengthOf[Loaded(route).turn] + 2))
    /\ UNCHANGED <<route, clock, called, stamped, submitted, revoked>>

Crash(w) ==
    /\ MayCrash /\ pc[w] # "idle"
    /\ route' = Abandoned(route, w)
    /\ Return(w)
    /\ UNCHANGED <<clock, called, ghost>>

Tick ==
    /\ clock < MaxTime
    /\ clock' = clock + 1
    /\ UNCHANGED <<route, local, called, ghost>>

HookStep(w) ==
    \/ \E m \in Messages : PreGatewayDispatch(w, m) \/ PreLlmCall(w, m)
    \/ AdviceFails(w) \/ AdviseOnly(w) \/ AdviseGateway(w)
    \/ OpenRoute(w) \/ WriteRoute(w) \/ ReplaceRoute(w) \/ RouteFails(w)
    \/ Submit(w) \/ SubmitFails(w) \/ Invalidate(w) \/ Crash(w)

Next == Tick \/ \E w \in Hosts : HookStep(w)

Spec == Init /\ [][Next]_vars
-----------------------------------------------------------------------------
(* The readers: the Contact service and Doctor *)

\* Mutant: the age of a route is not looked at.
StatusOfAnyAge(doc) ==
    CASE doc = NoDoc -> "unknown" [] doc # NoDoc /\ ~doc.valid -> "invalid" [] OTHER -> "fresh"

\* route_status
Status(doc) ==
    CASE doc = NoDoc -> "unknown"
      [] doc # NoDoc /\ ~doc.valid -> "invalid"
      [] doc # NoDoc /\ doc.valid /\ (MaxAge = 0 \/ clock - doc.at > MaxAge) -> "stale"
      [] OTHER -> "fresh"

RouteStatus == Status(Loaded(route))

Candidate(requested) ==
    CASE RouteStatus = "fresh" -> Loaded(route).target
      [] RouteStatus \in {"stale", "invalid"} -> "refused"
      [] OTHER -> IF Configured # Unset THEN Configured ELSE requested

Allowlisted(t) ==
    \/ Configured = Unset
    \/ Configured \in Targets /\ t = Configured
    \/ Configured \in Platforms /\ PlatformOf[t] = Configured

\* _execution_target: a target, a platform's home channel, or a refusal.
ExecutionTarget(requested) ==
    LET t == Candidate(requested)
    IN  IF /\ t \notin {"auto", "refused"}
           /\ requested \in {"auto", t, PlatformOf[t]}
           /\ Allowlisted(t)
        THEN t ELSE "refused"

Requests == Targets \cup Platforms \cup {"auto"}

\* run_doctor's contact component, with delivery enabled and nothing else amiss.
ContactHealth ==
    IF RouteStatus \in {"stale", "invalid"} \/ (RouteStatus = "unknown" /\ Configured = Unset)
    THEN "blocked" ELSE "healthy"
-----------------------------------------------------------------------------
(* Properties *)

TypeOK ==
    /\ route \in [live : RouteText \cup {Gone}, tmp : RouteText \cup {Gone},
                  atTmp : SUBSET Hosts, atLive : SUBSET Hosts]
    /\ pc \in [Hosts -> {"idle", "submit"} \cup Advising \cup AtRoute]
    /\ turn \in [Hosts -> Messages \cup {Invalidation}]
    /\ draft \in [Hosts -> RouteText]
    /\ clock \in 0..MaxTime
    /\ called \in [Messages -> SUBSET Hooks]
    /\ stamped \in [Messages -> 0..MaxTime \cup {Gone}]
    /\ submitted \in [Messages -> Nat]
    /\ revoked \subseteq Messages /\ overlapped \in BOOLEAN

\* Whatever hooks overlap, fail or crash, a contact with no exact target of
\* its own goes where the configuration says or where the owner wrote from, at
\* most MaxAge ago and not since invalidated: two writers in one temporary
\* file, and a file renamed under a writer, are read as no route at all and
\* never bring an old route back.
ContactsStayOnTheRoute ==
    \A requested \in Requests \ Targets :
        LET t == ExecutionTarget(requested)
        IN  t \in Targets =>
              \/ t = Configured
              \/ \E m \in Messages \ revoked :
                   /\ stamped[m] # Gone /\ TargetOf[m] = t
                   /\ clock - stamped[m] <= MaxAge

\* Unless two writers meet in it, the file a reader sees is never half written:
\* a write that fails or a crash at any step leaves the route stored before.
RouteIsWhole ==
    ~overlapped /\ Exists(route.live) => Loaded(route) # NoDoc

\* The Life Runtime never sees a percept of a route the Contact service could
\* not use yet: unless two writers met in the file, the route a message names
\* (or a later one) is stored before its percept is submitted.
RouteBeforePercept ==
    [][\A m \in Messages :
         submitted'[m] > submitted[m] /\ TargetOf[m] \in Targets /\ ~overlapped =>
           Loaded(route) # NoDoc /\ Loaded(route).at >= stamped[m]]_vars

\* Although Hermes hands a gateway message to both hooks, one of them submits
\* it, however the two calls overlap, fail or crash: the Runtime could not tell
\* two percepts of one message apart, their identities differ.
OneHookPerMessage == \A m \in Messages : submitted[m] <= 1

(* What the documents say and the code does not do; see README *)

\* HLB-004.6: without a learned route only an explicitly configured target may
\* be used.
NoFallbackToIntent ==
    \A requested \in Requests : RouteStatus = "unknown" /\ Configured = Unset =>
        ExecutionTarget(requested) = "refused"

\* doctor.py: "Governed proactive contact is ready."
ReadyMeansReady == ContactHealth = "healthy" => ExecutionTarget("auto") # "refused"

\* SECURITY.md: bridge errors are fail-visible.  Where no process crashes, a
\* hook that an advisory post ends has written nothing to the trace yet.
FailuresAreVisible ==
    [][\A w \in Hosts : pc[w] \in Advising => pc'[w] # "idle"]_vars
=============================================================================
