--------------------------- MODULE OwnerDecision ---------------------------
(***************************************************************************)
(* Owner decisions: the tool hlb_resolve_codex_approval sends the owner's  *)
(* answer to the Codex request behind the newest contact delivered on the  *)
(* route of the current session.                                           *)
(*                                                                         *)
(* Covered: the bounded, expiring, least-recently-used session routes of   *)
(* the plugin; the lookup in the contact database (join, order, LIMIT,     *)
(* first contact of the route decides); tool calls on concurrent threads;  *)
(* contacts reserved, sent and recorded by the Contact service meanwhile,  *)
(* some with an outcome it never learns; a decision socket that answers    *)
(* late, refuses, or takes a decision after the call has timed out.        *)
(*                                                                         *)
(* ContactDelivery models how a contact gets its receipt; here a contact   *)
(* goes through the commits the lookup can see. Left out: checks on the    *)
(* socket file, response framing, turns on surfaces that are no delivery   *)
(* route (they change nothing), evidence recovered by a later probe.       *)
(***************************************************************************)
EXTENDS Integers, SequencesExt, FiniteSets

CONSTANTS
    Contacts,   \* contact intents
    CreatedAt,  \* intent.created_at, stamped by Life Runtime
    TargetOf,   \* exact delivery target of a contact
    EventOf,    \* the one Work Event its evidence names, or None
    None,
    Sessions,   \* Hermes sessions
    Targets,
    Decisions,  \* accept, acceptForSession, decline, cancel
    Calls,      \* threads running the tool
    Window,     \* LIMIT of the lookup (100)
    MaxRoutes,  \* _MAX_SESSION_ROUTES (256)
    RouteTtl,   \* _SESSION_ROUTE_TTL_SECONDS (300)
    MaxTime     \* bound: how far the clock runs

Events == {EventOf[c] : c \in Contacts} \ {None}

ASSUME OwnerAssumption ==
    /\ CreatedAt \in [Contacts -> Nat] /\ TargetOf \in [Contacts -> Targets]
    /\ Window \in Nat \ {0} /\ MaxRoutes \in Nat \ {0}
    /\ RouteTtl \in Nat /\ MaxTime \in Nat
    /\ Sessions # {} /\ Targets # {} /\ Decisions # {}
    /\ Decisions \cap {"waiting", "gone"} = {}
    /\ None \notin [session : Sessions, target : Targets, at : 0..MaxTime]

VARIABLES
    requests,  \* contact.sqlite3: contacts in rowid order
    receipt,   \* contact.sqlite3: status of the stored receipt
    stage,     \* how far the Contact service got with a contact
    seen,      \* ghost: contacts the owner received, in that order
    recorded,  \* ghost: contacts in the order their delivery was recorded
    routes,    \* _SESSION_ROUTE_TARGETS, least recently used first
    heard,     \* ghost: the last route a session was heard on
    clock,
    pc,        \* where each tool call is
    job,       \* its session, decision, target and Work Event
    reply,     \* what the tool last answered on each thread
    mail,      \* decisions on their way to the decision socket
    approval   \* companion service: what became of each Codex request

contact == <<requests, receipt, stage, seen, recorded>>
session == <<routes, heard>>
tool    == <<pc, job, reply>>
codex   == <<mail, approval>>
vars    == <<contact, session, clock, tool, codex>>

Observation == [session : Sessions, target : Targets, at : 0..MaxTime]
Job == [session : Sessions, decision : Decisions, target : Targets,
        event : Events \cup {None}]
Message == [event : Events, decision : Decisions, by : Calls \cup {None}]
Reply == {"none", "no_route", "no_contact", "rejected", "transport_failure", "raised",
          "accepted"}

TypeOK ==
    /\ requests \in Seq(Contacts)
    /\ receipt \in [Contacts -> {"none", "delivered", "dry_run"}]
    /\ stage \in [Contacts -> {"new", "reserved", "sent", "recorded", "unknown"}]
    /\ seen \in Seq(Contacts) /\ recorded \in Seq(Contacts)
    /\ routes \in Seq(Observation) /\ Len(routes) <= MaxRoutes
    /\ heard \in [Sessions -> Observation \cup {None}]
    /\ clock \in 0..MaxTime
    /\ pc \in [Calls -> {"idle", "lookup", "send", "await"}]
    /\ job \in [Calls -> Job]
    /\ reply \in [Calls -> Reply]
    /\ mail \subseteq Message
    /\ approval \in [Events -> Decisions \cup {"waiting", "gone"}]

Init ==
    /\ requests = <<>>
    /\ receipt = [c \in Contacts |-> "none"]
    /\ stage = [c \in Contacts |-> "new"]
    /\ seen = <<>> /\ recorded = <<>>
    /\ routes = <<>>
    /\ heard = [s \in Sessions |-> None]
    /\ clock = 0
    /\ pc = [w \in Calls |-> "idle"]
    /\ job = [w \in Calls |-> CHOOSE j \in Job : j.event = None]
    /\ reply = [w \in Calls |-> "none"]
    /\ mail = {}
    /\ approval = [e \in Events |-> "waiting"]
-----------------------------------------------------------------------------
(* The Contact service, as far as the lookup can see it *)

Stage(c, from, to) == stage[c] = from /\ stage' = [stage EXCEPT ![c] = to]

Reserve(c) ==
    /\ Stage(c, "new", "reserved")
    /\ requests' = Append(requests, c)
    /\ UNCHANGED <<receipt, seen, recorded, session, clock, tool, codex>>

SaveDryRun(c) ==
    /\ Stage(c, "reserved", "recorded")
    /\ receipt' = [receipt EXCEPT ![c] = "dry_run"]
    /\ UNCHANGED <<requests, seen, recorded, session, clock, tool, codex>>

\* The provider hands the message to the owner.
Arrive(c) ==
    /\ Stage(c, "reserved", "sent")
    /\ seen' = Append(seen, c)
    /\ UNCHANGED <<requests, receipt, recorded, session, clock, tool, codex>>

SaveReceipt(c) ==
    /\ Stage(c, "sent", "recorded")
    /\ receipt' = [receipt EXCEPT ![c] = "delivered"]
    /\ recorded' = Append(recorded, c)
    /\ UNCHANGED <<requests, seen, session, clock, tool, codex>>

\* `hermes send` timed out or failed after the message had gone.
OutcomeUnknown(c) ==
    /\ Stage(c, "sent", "unknown")
    /\ UNCHANGED <<requests, receipt, seen, recorded, session, clock, tool, codex>>
-----------------------------------------------------------------------------
(* The session routes of the plugin *)

\* pop: a session has one entry at most.
Without(s) ==
    IF \E r \in Range(routes) : r.session = s
    THEN RemoveAt(routes, CHOOSE i \in DOMAIN routes : routes[i].session = s)
    ELSE routes

Evicted(cache) == IF Len(cache) > MaxRoutes THEN Tail(cache) ELSE cache

\* on_pre_gateway_dispatch on a delivery route.
GatewayTurn(s, t) ==
    LET observed == [session |-> s, target |-> t, at |-> clock]
    IN  /\ routes' = Evicted(Append(Without(s), observed))
        /\ heard' = [heard EXCEPT ![s] = observed]
        /\ UNCHANGED <<contact, clock, tool, codex>>

\* Mutant: the age of a route is not looked at.
ExpiredNever(r) == clock < r.at

Expired(r) == clock - r.at > RouteTtl

\* resolve_codex_approval_handler up to _session_route_target: a known, fresh
\* route becomes the most recently used one; a stale one is forgotten.
Call(w, s, d) ==
    LET known == {r \in Range(routes) : r.session = s}
    IN  /\ pc[w] = "idle"
        /\ \/ /\ \A r \in known : Expired(r)
              /\ routes' = Without(s)
              /\ reply' = [reply EXCEPT ![w] = "no_route"]
              /\ UNCHANGED <<pc, job>>
           \/ \E r \in known :
                /\ ~Expired(r)
                /\ routes' = Append(Without(s), r)
                /\ job' = [job EXCEPT ![w] = [session |-> s, decision |-> d,
                                              target |-> r.target, event |-> None]]
                /\ pc' = [pc EXCEPT ![w] = "lookup"]
                /\ UNCHANGED reply
        /\ UNCHANGED <<contact, heard, clock, codex>>
-----------------------------------------------------------------------------
(* CodexDecisionRouter.resolve *)

Rowid(c) == CHOOSE i \in DOMAIN requests : requests[i] = c
Newer(c, d) ==
    \/ CreatedAt[c] > CreatedAt[d]
    \/ CreatedAt[c] = CreatedAt[d] /\ Rowid(c) > Rowid(d)
Joined == {c \in Range(requests) : receipt[c] # "none"}
Listed == {c \in Joined : Cardinality({d \in Joined : Newer(d, c)}) < Window}
Newest(S) == CHOOSE c \in S : \A d \in S \ {c} : Newer(c, d)

\* Mutant: contacts without a Work Event are skipped.
OnRouteWithEvent(t) ==
    {c \in Listed : TargetOf[c] = t /\ receipt[c] = "delivered" /\ EventOf[c] # None}

\* Mutant: the target is not compared.
OnAnyRoute(t) == {c \in Listed : t \in Targets /\ receipt[c] = "delivered"}

OnRoute(t) == {c \in Listed : TargetOf[c] = t /\ receipt[c] = "delivered"}

LatestEvent(t) == IF OnRoute(t) = {} THEN None ELSE EventOf[Newest(OnRoute(t))]

Finish(w, r) ==
    /\ pc' = [pc EXCEPT ![w] = "idle"]
    /\ reply' = [reply EXCEPT ![w] = r]
    /\ UNCHANGED job

Lookup(w) ==
    /\ pc[w] = "lookup"
    /\ \/ /\ LatestEvent(job[w].target) = None
          /\ Finish(w, "no_contact")
       \/ /\ LatestEvent(job[w].target) # None
          /\ job' = [job EXCEPT ![w].event = LatestEvent(job[w].target)]
          /\ pc' = [pc EXCEPT ![w] = "send"]
          /\ UNCHANGED reply
    /\ UNCHANGED <<contact, session, clock, codex>>

Send(w) ==
    /\ pc[w] = "send"
    /\ pc' = [pc EXCEPT ![w] = "await"]
    /\ mail' = mail \cup {[event |-> job[w].event, decision |-> job[w].decision, by |-> w]}
    /\ UNCHANGED <<contact, session, clock, job, reply, approval>>

\* A refused connection; or no socket at all, which the handler lets escape.
SendFails(w) ==
    /\ pc[w] = "send"
    /\ \E r \in {"transport_failure", "raised"} : Finish(w, r)
    /\ UNCHANGED <<contact, session, clock, codex>>

\* Mutant: any well-formed answer counts as accepted.
AnsweredAlwaysAccepted(m, verdict) ==
    /\ mail' = mail \ {m} /\ verdict \in Reply
    /\ IF m.by = None THEN UNCHANGED tool ELSE Finish(m.by, "accepted")
    /\ UNCHANGED <<contact, session, clock>>

\* The companion answers; only status "accepted" counts.
Answered(m, verdict) ==
    /\ mail' = mail \ {m}
    /\ IF m.by = None THEN UNCHANGED tool ELSE Finish(m.by, verdict)
    /\ UNCHANGED <<contact, session, clock>>

CodexAccepts(m) ==
    /\ approval[m.event] \in {"waiting", m.decision}
    /\ approval' = [approval EXCEPT ![m.event] = m.decision]
    /\ Answered(m, "accepted")

CodexRejects(m) ==
    /\ approval[m.event] \notin {"waiting", m.decision}
    /\ Answered(m, "rejected")
    /\ UNCHANGED approval

\* The socket timeout: the decision may still be taken afterwards.
TimeOut(w) ==
    /\ pc[w] = "await"
    /\ mail' = {IF m.by = w THEN [m EXCEPT !.by = None] ELSE m : m \in mail}
    /\ Finish(w, "transport_failure")
    /\ UNCHANGED <<contact, session, clock, approval>>

\* The Codex request ends without the owner.
RequestEnds(e) ==
    /\ approval[e] = "waiting"
    /\ approval' = [approval EXCEPT ![e] = "gone"]
    /\ UNCHANGED <<contact, session, clock, tool, mail>>

Tick ==
    /\ clock < MaxTime
    /\ clock' = clock + 1
    /\ UNCHANGED <<contact, session, tool, codex>>
-----------------------------------------------------------------------------
CallStep(w) == Lookup(w) \/ Send(w) \/ SendFails(w) \/ TimeOut(w)

Next ==
    \/ \E c \in Contacts :
         Reserve(c) \/ SaveDryRun(c) \/ Arrive(c) \/ SaveReceipt(c) \/ OutcomeUnknown(c)
    \/ \E s \in Sessions : \E t \in Targets : GatewayTurn(s, t)
    \/ \E w \in Calls : \E s \in Sessions : \E d \in Decisions : Call(w, s, d)
    \/ \E w \in Calls : CallStep(w)
    \/ \E m \in mail : CodexAccepts(m) \/ CodexRejects(m)
    \/ \E e \in Events : RequestEnds(e)
    \/ Tick

Spec == Init /\ [][Next]_vars
-----------------------------------------------------------------------------
(* Properties *)

\* A tool call acts on the route its session was last heard on, and only
\* within the time to live of that observation: neither the reordering of the
\* cache by use nor an eviction makes an old route look fresh.
RouteIsCurrent ==
    [][\A w \in Calls : pc[w] = "idle" /\ pc'[w] = "lookup" =>
         LET last == heard[job'[w].session]
         IN  /\ last # None
             /\ last.target = job'[w].target
             /\ clock - last.at <= RouteTtl]_vars

\* The event a call carries was delivered on the route of that call, whatever
\* was reserved, delivered or forgotten since it was looked up.
EventOfOwnRoute ==
    \A w \in Calls : pc[w] \in {"send", "await"} =>
        \E c \in Range(recorded) :
            EventOf[c] = job[w].event /\ TargetOf[c] = job[w].target

\* A contact recorded as delivered on a route hides every older approval of
\* that route: the lookup never skips it to reach one created before it.
RecordedContactHidesOlder ==
    [][\A w \in Calls : pc[w] = "lookup" /\ pc'[w] = "send" =>
         \A c \in Range(recorded) : TargetOf[c] = job[w].target =>
           \E d \in Range(recorded) :
             /\ TargetOf[d] = job[w].target /\ EventOf[d] = job'[w].event
             /\ CreatedAt[d] >= CreatedAt[c]]_vars

\* "accepted" is only told to the owner when the companion holds exactly this
\* decision for the request, also when another call decides it meanwhile.
AcceptedMeansTaken ==
    \A w \in Calls : pc[w] = "idle" /\ reply[w] = "accepted" =>
        approval[job[w].event] = job[w].decision

LastIn(S, order) == CHOOSE c \in S : \A d \in S \ {c} : \E i, j \in DOMAIN order :
                      order[i] = c /\ order[j] = d /\ i > j

\* What the documentation says of the lookup: the newest delivered contact of
\* the route is the one acted on (as recorded, in delivery order).
NewestDeliveredDecides ==
    [][\A w \in Calls : pc[w] = "lookup" /\ pc'[w] = "send" =>
         LET onRoute == {c \in Range(recorded) : TargetOf[c] = job[w].target}
         IN  EventOf[LastIn(onRoute, recorded)] = job'[w].event]_vars

\* What the comment in the lookup says: it never reaches back past a newer
\* unrelated contact that was actually delivered on the route (once the
\* Contact service is done with that contact).
NeverReachesBack ==
    [][\A w \in Calls : pc[w] = "lookup" /\ pc'[w] = "send" =>
         \A c \in Range(seen) :
           /\ stage[c] # "sent" /\ TargetOf[c] = job[w].target /\ EventOf[c] = None
           => \E d \in Range(recorded) :
                EventOf[d] = job'[w].event /\ CreatedAt[d] >= CreatedAt[c]]_vars
=============================================================================
