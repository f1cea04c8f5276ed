------------------------ MODULE GatewayIngress_proofs ------------------------
(***************************************************************************)
(* Proofs about GatewayIngress for any number of hooks, messages, targets, *)
(* crashes and failed writes, whatever the route is configured to be.      *)
(***************************************************************************)
EXTENDS GatewayIngress, TLAPS

\* The hook that a message is for.
HookOf(m) == IF Gateway(m) THEN "pre_gateway_dispatch" ELSE "pre_llm_call"

\* A hook at rest handles nothing; one that advises handles a message that is for
\* it; one at the file has a route to write.
HooksKnowTurn ==
    \A w \in Hosts :
        /\ pc[w] = "idle" => turn[w] = Invalidation
        /\ pc[w] \in Advising \cup {"submit"} => turn[w] \in Messages
        /\ pc[w] \in Advising => (pc[w] = "gateway" <=> Gateway(turn[w]))
        /\ pc[w] \in AtRoute => draft[w].doc \in RouteDoc

\* A descriptor is on a file that is there, and its hook is about to write.
DescriptorsOpen ==
    /\ route.atTmp # {} => Exists(route.tmp)
    /\ route.atLive # {} => Exists(route.live)
    /\ route.atTmp \cap route.atLive = {}
    /\ \A w \in route.atTmp \cup route.atLive : pc[w] = "write_route"

TypeInv == TypeOK /\ HooksKnowTurn /\ DescriptorsOpen

-----------------------------------------------------------------------------
(* What a step of a hook does *)

OthersStay(w) ==
    \A v \in Hosts : v # w => pc'[v] = pc[v] /\ turn'[v] = turn[v] /\ draft'[v] = draft[v]
Stays(w, l) == OthersStay(w) /\ pc'[w] = l /\ turn'[w] = turn[w] /\ draft'[w] = draft[w]
Rests(w) ==
    OthersStay(w) /\ pc'[w] = "idle" /\ turn'[w] = Invalidation /\ draft'[w] = Empty

\* One operator per kind of step: the hook takes a message up or leaves
\* it to the other hook, ends without having
\* done its work, goes on, starts on the file, opens, writes and renames, submits.
TakesUp(w, m) ==
    /\ pc[w] = "idle" /\ HookOf(m) \notin called[m]
    /\ OthersStay(w) /\ turn'[w] = m /\ draft'[w] = draft[w]
    /\ pc'[w] = IF Gateway(m) THEN "gateway" ELSE "cli"
    /\ called' = [called EXCEPT ![m] = @ \cup {HookOf(m)}]
    /\ UNCHANGED <<route, clock, stamped, submitted, revoked, overlapped>>
Ignores(m) ==
    /\ Gateway(m)
    /\ called' = [called EXCEPT ![m] = @ \cup {"pre_llm_call"}]
    /\ UNCHANGED <<route, pc, turn, draft, clock, stamped, submitted, revoked, overlapped>>
Ends(w) ==
    /\ pc[w] # "idle" /\ Rests(w)
    /\ route'.live = route.live /\ route'.tmp = route.tmp
    /\ route'.atTmp = route.atTmp \ {w} /\ route'.atLive = route.atLive \ {w}
    /\ UNCHANGED <<clock, called, stamped, submitted, revoked, overlapped>>
GoesOn(w) ==
    /\ pc[w] \in Advising /\ TargetOf[turn[w]] \notin Targets
    /\ Stays(w, "submit")
    /\ UNCHANGED <<route, clock, called, stamped, submitted, revoked, overlapped>>
Starts(w, what, doc) ==
    /\ OthersStay(w) /\ pc'[w] = "open_route" /\ turn'[w] = what /\ draft'[w].doc = doc
    /\ overlapped' = (overlapped \/ \E v \in Hosts \ {w} : pc[v] \in AtRoute)
    /\ UNCHANGED <<route, clock, called, submitted, revoked>>
StartsSave(w) ==
    LET m == turn[w] IN
    /\ pc[w] = "gateway" /\ TargetOf[m] \in Targets
    /\ Starts(w, m, Route(m, clock))
    /\ stamped' = [stamped EXCEPT ![m] = clock]
StartsInvalidation(w) ==
    /\ pc[w] = "idle" /\ Exists(route.live) /\ route.live.doc # NoDoc /\ route.live.doc.valid
    /\ Starts(w, Invalidation, [route.live.doc EXCEPT !.valid = FALSE])
    /\ UNCHANGED stamped
Opens(w) ==
    /\ pc[w] = "open_route" /\ Stays(w, "write_route")
    /\ route'.live = route.live /\ route'.tmp = Empty
    /\ route'.atTmp = route.atTmp \cup {w} /\ route'.atLive = route.atLive
    /\ UNCHANGED <<clock, called, stamped, submitted, revoked, overlapped>>
\* The text of a file after w wrote its draft over it: the draft, or no JSON.
Result(w, old, new) ==
    \E doc \in {draft[w].doc, NoDoc}, n \in Nat : new = Text(doc, n)
Writes(w) ==
    /\ pc[w] = "write_route" /\ Stays(w, "replace_route")
    /\ \/ /\ w \in route.atTmp
          /\ Result(w, route.tmp, route'.tmp)
          /\ route.tmp = Empty => route'.tmp = draft[w]
          /\ route'.live = route.live
          /\ route'.atTmp = route.atTmp \ {w} /\ route'.atLive = route.atLive
       \/ /\ w \notin route.atTmp /\ w \in route.atLive
          /\ Result(w, route.live, route'.live)
          /\ route'.tmp = route.tmp
          /\ route'.atTmp = route.atTmp /\ route'.atLive = route.atLive \ {w}
       \/ w \notin route.atTmp \cup route.atLive /\ route' = route
    /\ UNCHANGED <<clock, called, stamped, submitted, revoked, overlapped>>
Replaces(w) ==
    /\ pc[w] = "replace_route" /\ Exists(route.tmp)
    /\ route'.live = route.tmp /\ route'.tmp = Gone
    /\ route'.atLive = route.atTmp /\ route'.atTmp = {}
    /\ \/ /\ turn[w] = Invalidation /\ Rests(w)
          /\ revoked' = revoked \cup {draft[w].doc.turn}
       \/ turn[w] # Invalidation /\ Stays(w, "submit") /\ UNCHANGED revoked
    /\ UNCHANGED <<clock, called, stamped, submitted, overlapped>>
Submits(w) ==
    /\ pc[w] = "submit" /\ Rests(w)
    /\ submitted' = [submitted EXCEPT ![turn[w]] = @ + 1]
    /\ UNCHANGED <<route, clock, called, stamped, revoked, overlapped>>

\* Where the steps of a hook leave its program counter, turn and draft.
LEMMA HookMoves ==
    ASSUME TypeOK, NEW w \in Hosts
    PROVE  /\ \A l : Goto(w, l) /\ UNCHANGED <<turn, draft>> => Stays(w, l)
           /\ \A l, m : Goto(w, l) /\ turn' = [turn EXCEPT ![w] = m] /\ UNCHANGED draft =>
                OthersStay(w) /\ pc'[w] = l /\ turn'[w] = m /\ draft'[w] = draft[w]
           /\ Return(w) => Rests(w)
           /\ \A what, text : Enter(w, what, text) =>
                /\ OthersStay(w) /\ pc'[w] = "open_route" /\ turn'[w] = what /\ draft'[w] = text
                /\ overlapped' = (overlapped \/ \E v \in Hosts \ {w} : pc[v] \in AtRoute)
BY DEF TypeOK, Goto, Return, Enter, OthersStay, Stays, Rests

\* What is left of two texts written over each other.
LEMMA OverResult ==
    ASSUME NEW new \in RouteText, NEW old \in RouteText
    PROVE  \E doc \in {new.doc, NoDoc}, n \in Nat : Over(new, old) = Text(doc, n)
<1>1. /\ new.size \in Nat /\ old.size \in Nat
      /\ new = Text(new.doc, new.size)
  BY DEF RouteText, Text
<1>2. CASE old.size <= new.size
  BY <1>1, <1>2 DEF Over
<1>3. CASE old.size = new.size + 1
  BY <1>1, <1>3 DEF Over
<1>4. CASE old.size > new.size + 1
  BY <1>1, <1>4 DEF Over
<1>. QED
  BY <1>1, <1>2, <1>3, <1>4

\* Every step of a hook is one of those kinds.
LEMMA HookStepEffect ==
    ASSUME TypeInv, NEW w \in Hosts, HookStep(w)
    PROVE  \/ \E m \in Messages : TakesUp(w, m) \/ Ignores(m)
           \/ Ends(w) \/ GoesOn(w) \/ StartsSave(w) \/ StartsInvalidation(w)
           \/ Opens(w) \/ Writes(w) \/ Replaces(w) \/ Submits(w)
<1> USE DEF TypeInv, TypeOK, ghost
<1>1. ASSUME NEW m \in Messages, PreGatewayDispatch(w, m) \/ PreLlmCall(w, m)
      PROVE  TakesUp(w, m) \/ Ignores(m)
  <2>1. CASE Gateway(m) /\ PreLlmCall(w, m)
    BY <2>1 DEF PreLlmCall, Called, Ignores, local
  <2>2. CASE ~(Gateway(m) /\ PreLlmCall(w, m))
    BY <1>1, <2>2, HookMoves DEF PreGatewayDispatch, PreLlmCall, Called, TakeUp, TakesUp, HookOf
  <2>. QED
    BY <2>1, <2>2
<1>2. CASE AdviceFails(w)
  BY <1>2, HookMoves DEF AdviceFails, Ends, DescriptorsOpen, Advising
<1>3. CASE AdviseOnly(w)
  <2>1. turn[w] \in Messages /\ (pc[w] = "cli" => TargetOf[turn[w]] = Cli)
    BY <1>3 DEF AdviseOnly, HooksKnowTurn, Advising, Gateway
  <2>. QED
    BY <1>3, <2>1, HookMoves, IngressAssumption DEF AdviseOnly, GoesOn, Advising
<1>4. CASE AdviseGateway(w)
  <2>1. turn[w] \in Messages /\ TargetOf[turn[w]] # Cli
    BY <1>4 DEF AdviseGateway, HooksKnowTurn, Advising, Gateway
  <2>2. TargetOf[turn[w]] \in Targets
    BY <1>4, <2>1, IngressAssumption DEF AdviseGateway
  <2>. QED
    BY <1>4, <2>2, HookMoves DEF AdviseGateway, StartsSave, Starts, Text
<1>5. CASE OpenRoute(w)
  BY <1>5, HookMoves DEF OpenRoute, Opens, Opened
<1>6. CASE WriteRoute(w)
  <2>1. Stays(w, "replace_route") /\ route' = Written(route, w, draft[w])
    BY <1>6, HookMoves DEF WriteRoute
  <2>2. CASE w \in route.atTmp
    <3>1. /\ route'.tmp = Over(draft[w], route.tmp) /\ route'.live = route.live
          /\ route'.atTmp = route.atTmp \ {w} /\ route'.atLive = route.atLive
      BY <2>1, <2>2 DEF Written
    <3>2. Result(w, route.tmp, route'.tmp)
      <4>1. route.tmp \in RouteText /\ draft[w] \in RouteText
        BY <2>2 DEF DescriptorsOpen, Exists
      <4>. QED
        BY <3>1, <4>1, OverResult DEF Result
    <3>3. route.tmp = Empty => route'.tmp = draft[w]
      BY <3>1 DEF Over, Text, Empty, RouteText
    <3>. QED
      BY <1>6, <2>1, <2>2, <3>1, <3>2, <3>3 DEF WriteRoute, Writes
  <2>3. CASE w \notin route.atTmp /\ w \in route.atLive
    <3>1. /\ route'.live = Over(draft[w], route.live) /\ route'.tmp = route.tmp
          /\ route'.atTmp = route.atTmp /\ route'.atLive = route.atLive \ {w}
      BY <2>1, <2>3 DEF Written
    <3>2. Result(w, route.live, route'.live)
      <4>1. route.live \in RouteText /\ draft[w] \in RouteText
        BY <2>3 DEF DescriptorsOpen, Exists
      <4>. QED
        BY <3>1, <4>1, OverResult DEF Result
    <3>. QED
      BY <1>6, <2>1, <2>3, <3>1, <3>2 DEF WriteRoute, Writes
  <2>4. CASE w \notin route.atTmp \cup route.atLive
    BY <1>6, <2>1, <2>4 DEF WriteRoute, Writes, Written
  <2>. QED
    BY <2>2, <2>3, <2>4
<1>7. CASE ReplaceRoute(w)
  BY <1>7, HookMoves DEF ReplaceRoute, Replaces, Replaced, CanReplace
<1>8. CASE RouteFails(w)
  BY <1>8, HookMoves DEF RouteFails, Ends, Abandoned, AtRoute
<1>9. CASE Submit(w)
  BY <1>9, HookMoves DEF Submit, Submits
<1>10. CASE Invalidate(w)
  <2>1. /\ pc[w] = "idle" /\ Loaded(route) # NoDoc /\ Loaded(route).valid
        /\ UNCHANGED <<route, clock, called, stamped, submitted, revoked>>
    BY <1>10 DEF Invalidate
  <2>2. Exists(route.live) /\ Loaded(route) = route.live.doc
    BY <2>1 DEF Loaded
  <2>3. PICK n : Enter(w, Invalidation, Text([route.live.doc EXCEPT !.valid = FALSE], n))
    BY <1>10, <2>2 DEF Invalidate
  <2>4. Starts(w, Invalidation, [route.live.doc EXCEPT !.valid = FALSE])
    <3> DEFINE doc == [route.live.doc EXCEPT !.valid = FALSE]
    <3>1. Text(doc, n).doc = doc
      BY DEF Text
    <3> HIDE DEF doc
    <3>2. /\ OthersStay(w) /\ pc'[w] = "open_route" /\ turn'[w] = Invalidation
          /\ draft'[w] = Text(doc, n)
          /\ overlapped' = (overlapped \/ \E v \in Hosts \ {w} : pc[v] \in AtRoute)
      BY <2>3, HookMoves DEF doc
    <3>3. Starts(w, Invalidation, doc)
      BY <2>1, <3>1, <3>2 DEF Starts
    <3>. QED
      BY <3>3 DEF doc
  <2>. QED
    BY <2>1, <2>2, <2>4 DEF StartsInvalidation
<1>11. CASE Crash(w)
  BY <1>11, HookMoves DEF Crash, Ends, Abandoned
<1>12. CASE SubmitFails(w)
  BY <1>12, HookMoves DEF SubmitFails, Ends, DescriptorsOpen
<1>. QED
  BY <1>1, <1>2, <1>3, <1>4, <1>5, <1>6, <1>7, <1>8, <1>9, <1>10, <1>11, <1>12 DEF HookStep

-----------------------------------------------------------------------------
(* Types *)

RouteFile == [live : RouteText \cup {Gone}, tmp : RouteText \cup {Gone},
              atTmp : SUBSET Hosts, atLive : SUBSET Hosts]

\* The operations on the file yield a file, and what they write is a route's text.
LEMMA FileOperations ==
    ASSUME NEW f \in RouteFile, NEW w \in Hosts, NEW text \in RouteText,
           w \in f.atTmp => Exists(f.tmp), w \in f.atLive => Exists(f.live)
    PROVE  /\ Opened(f, w) \in RouteFile /\ Abandoned(f, w) \in RouteFile
           /\ Replaced(f) \in RouteFile /\ Written(f, w, text) \in RouteFile
<1>1. Empty \in RouteText
  BY DEF Empty, Text, RouteText
<1>2. ASSUME NEW old \in RouteText PROVE Over(text, old) \in RouteText
  BY <1>2, OverResult DEF Text, RouteText
<1>3. Opened(f, w) \in RouteFile /\ Abandoned(f, w) \in RouteFile /\ Replaced(f) \in RouteFile
  BY <1>1 DEF RouteFile, Opened, Abandoned, Replaced
<1>4. Written(f, w, text) \in RouteFile
  <2>1. CASE w \in f.atTmp
    <3>1. Over(text, f.tmp) \in RouteText
      BY <1>2, <2>1 DEF RouteFile, Exists
    <3>. QED
      BY <2>1, <3>1 DEF RouteFile, Written
  <2>2. CASE w \notin f.atTmp /\ w \in f.atLive
    <3>1. Over(text, f.live) \in RouteText
      BY <1>2, <2>2 DEF RouteFile, Exists
    <3>. QED
      BY <2>2, <3>1 DEF RouteFile, Written
  <2>3. CASE w \notin f.atTmp \cup f.atLive
    BY <2>3 DEF Written
  <2>. QED
    BY <2>1, <2>2, <2>3
<1>. QED
  BY <1>3, <1>4

\* A step of a hook keeps the types.
LEMMA HookStepKeepsTypes ==
    ASSUME TypeInv, NEW w \in Hosts, HookStep(w)
    PROVE  TypeOK'
<1>a. TypeOK /\ HooksKnowTurn
  BY DEF TypeInv
<1>b. /\ route \in RouteFile /\ draft[w] \in RouteText
      /\ Opened(route, w) \in RouteFile /\ Abandoned(route, w) \in RouteFile
      /\ Replaced(route) \in RouteFile /\ Written(route, w, draft[w]) \in RouteFile
  <2>1. route \in RouteFile /\ draft[w] \in RouteText
    BY <1>a DEF TypeOK, RouteFile
  <2>2. (w \in route.atTmp => Exists(route.tmp)) /\ (w \in route.atLive => Exists(route.live))
    BY DEF TypeInv, DescriptorsOpen
  <2>. QED
    BY <2>1, <2>2, FileOperations
<1>c. Empty \in RouteText
  BY DEF Empty, Text, RouteText
<1>d. \A l : Goto(w, l) /\ l \in {"idle", "submit"} \cup Advising \cup AtRoute =>
        pc' \in [Hosts -> {"idle", "submit"} \cup Advising \cup AtRoute]
  BY <1>a DEF TypeOK, Goto
<1>e. Return(w) => /\ pc' \in [Hosts -> {"idle", "submit"} \cup Advising \cup AtRoute]
                   /\ turn' \in [Hosts -> Messages \cup {Invalidation}]
                   /\ draft' \in [Hosts -> RouteText]
  BY <1>a, <1>c DEF TypeOK, Return, Goto
<1>f. \A what \in Messages \cup {Invalidation} : \A text \in RouteText : Enter(w, what, text) =>
        /\ pc' \in [Hosts -> {"idle", "submit"} \cup Advising \cup AtRoute]
        /\ turn' \in [Hosts -> Messages \cup {Invalidation}]
        /\ draft' \in [Hosts -> RouteText]
        /\ overlapped' \in BOOLEAN
  BY <1>a DEF TypeOK, Enter, Goto, AtRoute
<1> USE DEF ghost
<1>1. ASSUME NEW m \in Messages, PreGatewayDispatch(w, m) \/ PreLlmCall(w, m) PROVE TypeOK'
  <2>1. called' \in [Messages -> SUBSET Hooks]
    BY <1>a, <1>1 DEF PreGatewayDispatch, PreLlmCall, Called, Hooks, TypeOK
  <2>2. CASE UNCHANGED <<route, local, clock, ghost>>
    BY <1>a, <2>1, <2>2 DEF TypeOK, local
  <2>3. CASE TakeUp(w, m, "gateway") \/ TakeUp(w, m, "cli")
    BY <1>a, <1>d, <2>1, <2>3 DEF TypeOK, TakeUp, Advising
  <2>. QED
    BY <1>1, <2>2, <2>3 DEF PreGatewayDispatch, PreLlmCall
<1>2. CASE AdviceFails(w)
  BY <1>a, <1>e, <1>2 DEF AdviceFails, TypeOK
<1>3. CASE AdviseOnly(w)
  BY <1>a, <1>d, <1>3 DEF AdviseOnly, TypeOK
<1>4. CASE AdviseGateway(w)
  <2>1. turn[w] \in Messages /\ TargetOf[turn[w]] \in Targets /\ LengthOf[turn[w]] \in Nat
    BY <1>a, <1>4, IngressAssumption DEF AdviseGateway, HooksKnowTurn, Advising, Gateway
  <2>2. Text(Route(turn[w], clock), LengthOf[turn[w]]) \in RouteText
    BY <1>a, <2>1 DEF TypeOK, Text, Route, RouteText, RouteDoc
  <2>3. stamped' \in [Messages -> 0..MaxTime \cup {Gone}]
    BY <1>a, <1>4 DEF AdviseGateway, TypeOK
  <2>. QED
    BY <1>a, <1>f, <1>4, <2>2 DEF AdviseGateway, TypeOK
<1>5. CASE OpenRoute(w)
  BY <1>a, <1>b, <1>d, <1>5 DEF OpenRoute, TypeOK, AtRoute, RouteFile
<1>6. CASE WriteRoute(w)
  BY <1>a, <1>b, <1>d, <1>6 DEF WriteRoute, TypeOK, AtRoute, RouteFile
<1>7. CASE ReplaceRoute(w)
  <2>1. draft[w].doc.turn \in Messages
    BY <1>a, <1>7 DEF ReplaceRoute, HooksKnowTurn, AtRoute, RouteDoc
  <2>2. /\ route' \in RouteFile /\ UNCHANGED <<clock, called, stamped, submitted, overlapped>>
        /\ \/ revoked' = revoked \cup {draft[w].doc.turn} /\ Return(w)
           \/ Goto(w, "submit") /\ UNCHANGED <<turn, draft, revoked>>
    BY <1>b, <1>7 DEF ReplaceRoute
  <2>3. revoked' \subseteq Messages
    BY <1>a, <2>1, <2>2 DEF TypeOK
  <2>4. /\ pc' \in [Hosts -> {"idle", "submit"} \cup Advising \cup AtRoute]
        /\ turn' \in [Hosts -> Messages \cup {Invalidation}]
        /\ draft' \in [Hosts -> RouteText]
    BY <1>a, <1>d, <1>e, <2>2 DEF TypeOK
  <2>. QED
    BY <1>a, <2>2, <2>3, <2>4 DEF TypeOK, RouteFile
<1>8. CASE RouteFails(w)
  BY <1>a, <1>b, <1>e, <1>8 DEF RouteFails, TypeOK, RouteFile
<1>9. CASE Submit(w)
  <2>1. submitted' \in [Messages -> Nat]
    BY <1>a, <1>9 DEF Submit, TypeOK, HooksKnowTurn
  <2>. QED
    BY <1>a, <1>e, <1>9, <2>1 DEF Submit, TypeOK
<1>10. CASE Invalidate(w)
  <2>1. Loaded(route) \in RouteDoc
    BY <1>a, <1>10 DEF Invalidate, Loaded, Exists, TypeOK, RouteText
  <2>2. LengthOf[Loaded(route).turn] + 2 \in Nat
    BY <2>1, IngressAssumption DEF RouteDoc
  <2>3. Text([Loaded(route) EXCEPT !.valid = FALSE], LengthOf[Loaded(route).turn] + 2) \in RouteText
    BY <2>1, <2>2 DEF Text, RouteText, RouteDoc
  <2>. QED
    BY <1>a, <1>f, <1>10, <2>3 DEF Invalidate, TypeOK
<1>11. CASE Crash(w)
  BY <1>a, <1>b, <1>e, <1>11 DEF Crash, TypeOK, RouteFile
<1>12. CASE SubmitFails(w)
  BY <1>a, <1>e, <1>12 DEF SubmitFails, TypeOK
<1>. QED
  BY <1>1, <1>2, <1>3, <1>4, <1>5, <1>6, <1>7, <1>8, <1>9, <1>10, <1>11, <1>12 DEF HookStep

\* Every variable keeps its type, no descriptor outlives its file, and no hook is
\* at the file without a route to write.
THEOREM TypeCorrect == Spec => []TypeInv
<1>1. Init => TypeInv
  <2> SUFFICES ASSUME Init PROVE TypeInv
    OBVIOUS
  <2>1. Empty \in RouteText /\ NewFile.atTmp = {} /\ NewFile.atLive = {}
    BY DEF Empty, Text, RouteText, NewFile
  <2>2. TypeOK
    <3>1. route \in [live : RouteText \cup {Gone}, tmp : RouteText \cup {Gone},
                     atTmp : SUBSET Hosts, atLive : SUBSET Hosts]
      BY DEF Init, NewFile
    <3>2. clock \in 0..MaxTime
      BY IngressAssumption DEF Init
    <3>. QED
      BY <2>1, <3>1, <3>2 DEF Init, TypeOK
  <2>3. HooksKnowTurn /\ DescriptorsOpen
    BY <2>1 DEF Init, HooksKnowTurn, DescriptorsOpen, AtRoute, Advising
  <2>. QED
    BY <2>2, <2>3 DEF TypeInv
<1>2. TypeInv /\ [Next]_vars => TypeInv'
  <2> SUFFICES ASSUME TypeInv, [Next]_vars PROVE TypeInv'
    OBVIOUS
  <2>a. TypeOK /\ HooksKnowTurn /\ DescriptorsOpen
    BY DEF TypeInv
  <2>b. route.atTmp \subseteq Hosts /\ route.atLive \subseteq Hosts /\ Exists(Empty)
    <3>1. Empty \in RouteText
      BY DEF Empty, Text, RouteText
    <3>. QED
      BY <2>a, <3>1, IngressAssumption DEF TypeOK, Exists
  <2>1. ASSUME NEW w \in Hosts, HookStep(w) PROVE TypeInv'
    <3>1. TypeOK'
      BY <2>1, HookStepKeepsTypes
    <3>2. HooksKnowTurn'
      <4>1. ASSUME NEW v \in Hosts, v # w PROVE UNCHANGED <<pc[v], turn[v], draft[v]>>
        BY <2>1, <4>1, HookStepEffect DEF TakesUp, Ignores, Ends, GoesOn, StartsSave, StartsInvalidation,
               Starts, Opens, Writes, Replaces, Submits, Stays, Rests, OthersStay
      <4>2. /\ pc'[w] = "idle" => turn'[w] = Invalidation
            /\ pc'[w] \in Advising \cup {"submit"} => turn'[w] \in Messages
            /\ pc'[w] \in Advising => (pc'[w] = "gateway" <=> Gateway(turn'[w]))
            /\ pc'[w] \in AtRoute => draft'[w].doc \in RouteDoc
        <5>1. CASE StartsSave(w)
          <6>1. turn[w] \in Messages /\ TargetOf[turn[w]] \in Targets /\ clock \in 0..MaxTime
            BY <2>a, <5>1, IngressAssumption DEF StartsSave, HooksKnowTurn, Advising, TypeOK
          <6>2. Route(turn[w], clock) \in RouteDoc
            BY <6>1 DEF Route, RouteDoc
          <6>. QED
            BY <5>1, <6>1, <6>2 DEF StartsSave, Starts, Advising
        <5>2. CASE StartsInvalidation(w)
          <6>1. route.live.doc \in RouteDoc
            BY <2>a, <5>2 DEF StartsInvalidation, TypeOK, Exists, RouteText
          <6>2. [route.live.doc EXCEPT !.valid = FALSE] \in RouteDoc
            BY <6>1 DEF RouteDoc
          <6>. QED
            BY <5>2, <6>2 DEF StartsInvalidation, Starts, Advising
        <5>3. CASE Replaces(w)
          BY <2>a, <5>3 DEF Replaces, Stays, Rests, AtRoute, Advising, TypeOK
        <5>4. CASE \/ \E m \in Messages : TakesUp(w, m) \/ Ignores(m)
                   \/ Ends(w) \/ GoesOn(w) \/ Opens(w) \/ Writes(w) \/ Submits(w)
          BY <2>a, <5>4 DEF TakesUp, Ignores, Ends, GoesOn, Opens, Writes, Submits, Stays, Rests,
                 AtRoute, Advising, HooksKnowTurn
        <5>. QED
          BY <2>1, <5>1, <5>2, <5>3, <5>4, HookStepEffect
      <4>. QED
        BY <2>a, <4>1, <4>2 DEF HooksKnowTurn
    <3>3. DescriptorsOpen'
      <4>1. CASE Opens(w)
        BY <2>a, <2>b, <4>1 DEF Opens, Stays, OthersStay, DescriptorsOpen
      <4>2. CASE Writes(w)
        <5>1. Exists(route'.tmp) = Exists(route.tmp) /\ Exists(route'.live) = Exists(route.live)
          <6>1. draft[w] \in RouteText /\ Gone \notin RouteText
            BY <2>a, IngressAssumption DEF TypeOK
          <6>2. ASSUME NEW old \in RouteText, NEW new \in RouteText \cup {Gone}, Result(w, old, new)
                PROVE  Exists(new)
            <7>1. draft[w].doc \in RouteDoc \cup {NoDoc}
              BY <6>1 DEF RouteText
            <7>2. \A doc \in RouteDoc \cup {NoDoc}, n \in Nat : Text(doc, n) \in RouteText
              BY DEF Text, RouteText
            <7>. QED
              BY <6>1, <6>2, <7>1, <7>2 DEF Result, Exists
          <6>. QED
            BY <2>a, <4>2, <6>2 DEF Writes, Exists, TypeOK, DescriptorsOpen
        <5>. QED
          BY <2>a, <2>b, <4>2, <5>1 DEF Writes, Stays, OthersStay, DescriptorsOpen
      <4>3. CASE Replaces(w)
        BY <2>a, <2>b, <4>3 DEF Replaces, Stays, Rests, OthersStay, DescriptorsOpen
      <4>4. CASE Ends(w)
        BY <2>a, <2>b, <4>4 DEF Ends, Rests, OthersStay, DescriptorsOpen
      <4>5. CASE GoesOn(w) \/ StartsSave(w) \/ StartsInvalidation(w) \/ Submits(w)
        BY <2>a, <2>b, <4>5 DEF GoesOn, StartsSave, StartsInvalidation, Starts, Submits,
               Stays, Rests, OthersStay, DescriptorsOpen, Advising
      <4>6. CASE \E m \in Messages : TakesUp(w, m) \/ Ignores(m)
        BY <2>a, <2>b, <4>6 DEF TakesUp, Ignores, OthersStay, DescriptorsOpen
      <4>. QED
        BY <2>1, <4>1, <4>2, <4>3, <4>4, <4>5, <4>6, HookStepEffect
    <3>. QED
      BY <3>1, <3>2, <3>3 DEF TypeInv
  <2>2. CASE Tick
    <3>1. clock' \in 0..MaxTime
      BY <2>a, <2>2, IngressAssumption DEF Tick, TypeOK
    <3>. QED
      BY <2>2, <3>1 DEF Tick, TypeInv, TypeOK, HooksKnowTurn, DescriptorsOpen, local, ghost
  <2>3. CASE UNCHANGED vars
    BY <2>3 DEF vars, TypeInv, TypeOK, HooksKnowTurn, DescriptorsOpen, local, ghost
  <2>. QED
    BY <2>1, <2>2, <2>3 DEF Next
<1>3. QED
  BY <1>1, <1>2, PTL DEF Spec

-----------------------------------------------------------------------------
(* One percept for a message.  OneHookPerMessage alone does not say why no    *)
(* second hook takes the message up: the first one may have it in hand, or    *)
(* have ended, in a crash or an exception, without a percept.                 *)

OneHandler ==
    /\ \A v, w \in Hosts : turn[w] \in Messages /\ turn[v] = turn[w] => v = w
    /\ \A w \in Hosts : turn[w] \in Messages =>
          HookOf(turn[w]) \in called[turn[w]] /\ submitted[turn[w]] = 0
    /\ \A m \in Messages : HookOf(m) \notin called[m] => submitted[m] = 0

HookInv == OneHandler /\ OneHookPerMessage

\* A message in the hands of a hook is in the hands of no other and has not been
\* submitted; nor has one whose own hook was not called yet.
THEOREM HookInvariant == Spec => []HookInv
<1>1. Init => HookInv
  BY IngressAssumption DEF Init, HookInv, OneHandler, OneHookPerMessage
<1>2. TypeInv /\ HookInv /\ [Next]_vars => HookInv'
  <2> SUFFICES ASSUME TypeInv, HookInv, [Next]_vars PROVE HookInv'
    OBVIOUS
  <2> USE DEF HookInv, OneHandler, OneHookPerMessage
  <2>a. TypeOK /\ HooksKnowTurn /\ Invalidation \notin Messages /\ clock # Gone
    BY IngressAssumption DEF TypeInv, TypeOK
  <2>1. ASSUME NEW w \in Hosts, HookStep(w) PROVE HookInv'
    <3>1. ASSUME NEW m \in Messages, TakesUp(w, m) PROVE HookInv'
      BY <2>a, <3>1 DEF TakesUp, OthersStay, TypeOK
    <3>10. ASSUME NEW m \in Messages, Ignores(m) PROVE HookInv'
      <4>1. HookOf(m) # "pre_llm_call"
        BY <3>10 DEF Ignores, HookOf
      <4>2. \A n \in Messages : HookOf(n) \in called'[n] <=> HookOf(n) \in called[n]
        BY <2>a, <3>10, <4>1 DEF Ignores, TypeOK
      <4>. QED
        BY <3>10, <4>2 DEF Ignores
    <3>2. CASE Ends(w)
      BY <2>a, <3>2 DEF Ends, Rests, OthersStay
    <3>3. CASE GoesOn(w)
      BY <3>3 DEF GoesOn, Stays, OthersStay
    <3>4. CASE StartsSave(w)
      BY <2>a, <3>4 DEF StartsSave, Starts, OthersStay
    <3>5. CASE StartsInvalidation(w)
      BY <2>a, <3>5 DEF StartsInvalidation, Starts, OthersStay
    <3>6. CASE Opens(w)
      BY <3>6 DEF Opens, Stays, OthersStay
    <3>7. CASE Writes(w)
      BY <3>7 DEF Writes, Stays, OthersStay
    <3>8. CASE Replaces(w)
      BY <3>8 DEF Replaces, Rests, Stays, OthersStay
    <3>9. CASE Submits(w)
      BY <2>a, <3>9 DEF Submits, Rests, OthersStay
    <3>. QED
      BY <2>1, HookStepEffect, <3>1, <3>2, <3>3, <3>4, <3>5, <3>6, <3>7, <3>8, <3>9, <3>10
  <2>2. CASE Tick \/ UNCHANGED vars
    BY <2>2 DEF Tick, vars, local, ghost
  <2>. QED
    BY <2>1, <2>2 DEF Next
<1>3. QED
  BY <1>1, <1>2, TypeCorrect, PTL DEF Spec

\* Hermes hands a gateway message to both hooks, and one of them submits it, at
\* most once, whatever hooks run, fail or crash.
THEOREM OnePercept == Spec => []OneHookPerMessage
BY HookInvariant, PTL DEF HookInv

-----------------------------------------------------------------------------
(* The routes the Contact service may read.  That a route is of a message     *)
(* saved lately and not revoked since cannot be kept without following the    *)
(* text of each message through drafts, temporary file and live file: a       *)
(* writer whose file was renamed under it, and an invalidation that renames   *)
(* somebody else's text, must not bring back what was revoked.                *)

\* A stored or drafted route tells whom it came from and when it was saved.
Stamped(doc) ==
    doc # NoDoc => stamped[doc.turn] = doc.at /\ TargetOf[doc.turn] = doc.target

Holds(text, m) == Exists(text) /\ text.doc # NoDoc /\ text.doc.turn = m
ValidIn(text, m) == Holds(text, m) /\ text.doc.valid

Invalidates(w, m) ==
    pc[w] \in AtRoute /\ turn[w] = Invalidation /\ draft[w].doc.turn = m

RoutesStamped ==
    /\ Exists(route.live) => Stamped(route.live.doc)
    /\ Exists(route.tmp) => Stamped(route.tmp.doc)
    /\ \A w \in Hosts : pc[w] \in AtRoute =>
          /\ Stamped(draft[w].doc)
          /\ IF turn[w] = Invalidation THEN ~draft[w].doc.valid
             ELSE draft[w].doc.turn = turn[w] /\ draft[w].doc.valid

\* The route of a message is written once: its hook has nothing left to write
\* when the route can be read, invalidated or revoked.
WrittenOnce ==
    \A m \in Messages :
        \/ Holds(route.live, m) \/ Holds(route.tmp, m) \/ m \in revoked
        \/ \E w \in Hosts : Invalidates(w, m)
        => /\ HookOf(m) \in called[m]
           /\ \A w \in Hosts : turn[w] = m => pc[w] \in {"replace_route", "submit"}

\* A valid route is in one of the two files only.
NotInBoth == \A m \in Messages : ~(ValidIn(route.live, m) /\ ValidIn(route.tmp, m))

\* Who invalidates a route has found it in the live file.
InvalidatedIsLive ==
    \A w \in Hosts, m \in Messages : Invalidates(w, m) => ~ValidIn(route.tmp, m)

\* A revoked route is valid nowhere.
RevokedIsGone ==
    \A m \in revoked : ~ValidIn(route.live, m) /\ ~ValidIn(route.tmp, m)

RouteInv == RoutesStamped /\ WrittenOnce /\ NotInBoth /\ InvalidatedIsLive /\ RevokedIsGone

\* Every text under way says whom the owner wrote from and when, and none of them
\* can make a route valid again that was revoked.
THEOREM RouteInvariant == Spec => []RouteInv
<1>1. Init => RouteInv
  BY DEF Init, NewFile, Exists, RouteInv, RoutesStamped, WrittenOnce, NotInBoth, InvalidatedIsLive,
         RevokedIsGone, Holds, ValidIn, Invalidates, AtRoute
<1>2. TypeInv /\ HookInv /\ RouteInv /\ [Next]_vars => RouteInv'
  <2> SUFFICES ASSUME TypeInv, HookInv, RouteInv, [Next]_vars PROVE RouteInv'
    OBVIOUS
  <2>a. /\ TypeOK /\ HooksKnowTurn /\ DescriptorsOpen /\ OneHandler
        /\ Invalidation \notin Messages /\ NoDoc \notin RouteDoc
        /\ Gone \notin RouteText /\ Gone \notin 0..MaxTime
    BY IngressAssumption DEF TypeInv, HookInv
  <2>b. RoutesStamped /\ WrittenOnce /\ NotInBoth /\ InvalidatedIsLive /\ RevokedIsGone
    BY DEF RouteInv
  <2>c. Empty.doc = NoDoc /\ \A n : Text(NoDoc, n).doc = NoDoc
    BY DEF Empty, Text
  <2>d. /\ Exists(route.live) => route.live.doc \in RouteDoc \cup {NoDoc}
        /\ Exists(route.tmp) => route.tmp.doc \in RouteDoc \cup {NoDoc}
        /\ \A v \in Hosts : draft[v].doc \in RouteDoc \cup {NoDoc}
        /\ \A v \in Hosts : pc[v] \in AtRoute => draft[v].doc \in RouteDoc
    BY <2>a DEF TypeOK, RouteText, Exists, HooksKnowTurn
  <2>1. ASSUME NEW w \in Hosts, HookStep(w) PROVE RouteInv'
    <3>10. ASSUME NEW m \in Messages, Ignores(m) PROVE RouteInv'
      <4>1. \A n \in Messages : called[n] \subseteq called'[n]
        BY <2>a, <3>10 DEF Ignores, TypeOK
      <4>. QED
        BY <2>b, <3>10, <4>1 DEF Ignores, RouteInv, RoutesStamped, WrittenOnce, NotInBoth,
               InvalidatedIsLive, RevokedIsGone, Stamped, Invalidates
    <3>1. ASSUME NEW m \in Messages, TakesUp(w, m) PROVE RouteInv'
      <4>1. RoutesStamped'
        BY <2>b, <3>1 DEF TakesUp, OthersStay, RoutesStamped, Stamped, AtRoute
      <4>2. WrittenOnce'
        BY <2>a, <2>b, <3>1 DEF TakesUp, OthersStay, WrittenOnce, Invalidates, AtRoute, TypeOK
      <4>3. NotInBoth'
        BY <2>b, <3>1 DEF TakesUp, NotInBoth
      <4>4. InvalidatedIsLive'
        BY <2>a, <2>b, <3>1 DEF TakesUp, OthersStay, InvalidatedIsLive, Invalidates, AtRoute
      <4>5. RevokedIsGone'
        BY <2>b, <3>1 DEF TakesUp, RevokedIsGone
      <4>. QED
        BY <4>1, <4>2, <4>3, <4>4, <4>5 DEF RouteInv
    <3>2. CASE Ends(w)
      <4>1. RoutesStamped'
        BY <2>b, <3>2 DEF Ends, Rests, OthersStay, RoutesStamped, Stamped, AtRoute
      <4>2. WrittenOnce'
        BY <2>a, <2>b, <3>2 DEF Ends, Rests, OthersStay, WrittenOnce, Invalidates, AtRoute
      <4>3. NotInBoth'
        BY <2>b, <3>2 DEF Ends, NotInBoth
      <4>4. InvalidatedIsLive'
        BY <2>b, <3>2 DEF Ends, Rests, OthersStay, InvalidatedIsLive, Invalidates, AtRoute
      <4>5. RevokedIsGone'
        BY <2>b, <3>2 DEF Ends, RevokedIsGone
      <4>. QED
        BY <4>1, <4>2, <4>3, <4>4, <4>5 DEF RouteInv
    <3>3. CASE GoesOn(w)
      <4>1. RoutesStamped'
        BY <2>b, <3>3 DEF GoesOn, Stays, OthersStay, RoutesStamped, Stamped, AtRoute
      <4>2. WrittenOnce'
        BY <2>b, <3>3 DEF GoesOn, Stays, OthersStay, WrittenOnce, Invalidates, AtRoute
      <4>3. NotInBoth'
        BY <2>b, <3>3 DEF GoesOn, NotInBoth
      <4>4. InvalidatedIsLive'
        BY <2>b, <3>3 DEF GoesOn, Stays, OthersStay, InvalidatedIsLive, Invalidates, AtRoute
      <4>5. RevokedIsGone'
        BY <2>b, <3>3 DEF GoesOn, RevokedIsGone
      <4>. QED
        BY <4>1, <4>2, <4>3, <4>4, <4>5 DEF RouteInv
    <3>4. CASE StartsSave(w)
      <4>1. RoutesStamped'
        <5>1. PICK m \in Messages :
              /\ m = turn[w] /\ pc[w] = "gateway" /\ pc'[w] = "open_route"
              /\ draft'[w].doc = Route(m, clock)
              /\ turn'[w] = m /\ stamped' = [stamped EXCEPT ![m] = clock] /\ route' = route
              /\ OthersStay(w)
          BY <2>a, <3>4 DEF StartsSave, Starts, HooksKnowTurn, Advising
        <5>2. Stamped(draft[w].doc)' /\ draft'[w].doc.turn = m /\ draft'[w].doc.valid
          BY <2>a, <5>1 DEF Stamped, Route, TypeOK
        <5>3. \A doc \in RouteDoc \cup {NoDoc} :
                 Stamped(doc) /\ (doc = NoDoc \/ doc.turn # m) => Stamped(doc)'
          BY <2>a, <5>1 DEF Stamped, RouteDoc, TypeOK
        <5>4. ~Holds(route.live, m) /\ ~Holds(route.tmp, m) /\ \A v \in Hosts : ~Invalidates(v, m)
          BY <2>b, <5>1 DEF WrittenOnce
        <5>5. \A v \in Hosts : v # w /\ pc[v] \in AtRoute => draft[v].doc.turn # m
          BY <2>a, <2>b, <5>1, <5>4 DEF RoutesStamped, Invalidates, OneHandler
        <5>. QED
          <6>1. /\ Exists(route.live) => Stamped(route.live.doc)'
                /\ Exists(route.tmp) => Stamped(route.tmp.doc)'
            BY <2>b, <2>d, <5>1, <5>3, <5>4 DEF RoutesStamped, Holds
          <6>2. ASSUME NEW v \in Hosts, v # w, pc[v] \in AtRoute
                PROVE  /\ Stamped(draft[v].doc)'
                       /\ IF turn[v] = Invalidation THEN ~draft[v].doc.valid
                          ELSE draft[v].doc.turn = turn[v] /\ draft[v].doc.valid
            BY <2>b, <2>d, <5>1, <5>3, <5>5, <6>2 DEF RoutesStamped, OthersStay
          <6>. QED
            BY <2>a, <5>1, <5>2, <6>1, <6>2 DEF RoutesStamped, OthersStay
      <4>2. WrittenOnce'
        BY <2>a, <2>b, <3>4 DEF StartsSave, Starts, OthersStay, HooksKnowTurn, Advising,
               WrittenOnce, Invalidates
      <4>3. NotInBoth'
        BY <2>b, <3>4 DEF StartsSave, Starts, NotInBoth
      <4>4. InvalidatedIsLive'
        BY <2>a, <2>b, <3>4 DEF StartsSave, Starts, OthersStay, HooksKnowTurn, Advising,
               InvalidatedIsLive, Invalidates
      <4>5. RevokedIsGone'
        BY <2>b, <3>4 DEF StartsSave, Starts, RevokedIsGone
      <4>. QED
        BY <4>1, <4>2, <4>3, <4>4, <4>5 DEF RouteInv
    <3>5. CASE StartsInvalidation(w)
      <4> DEFINE m == route.live.doc.turn
      <4>a. /\ Exists(route.live) /\ route.live.doc \in RouteDoc /\ route.live.doc.valid
            /\ m \in Messages
        BY <2>d, <3>5 DEF StartsInvalidation, RouteDoc
      <4>b. /\ draft'[w].doc \in RouteDoc /\ draft'[w].doc.turn = m /\ ~draft'[w].doc.valid
            /\ draft'[w].doc.target = route.live.doc.target /\ draft'[w].doc.at = route.live.doc.at
        BY <3>5, <4>a DEF StartsInvalidation, Starts, RouteDoc
      <4>c. /\ pc[w] = "idle" /\ pc'[w] = "open_route" /\ turn'[w] = Invalidation
            /\ OthersStay(w) /\ UNCHANGED <<route, called, stamped, revoked>>
        BY <3>5 DEF StartsInvalidation, Starts
      <4>d. Holds(route.live, m) /\ ValidIn(route.live, m)
        BY <2>a, <4>a DEF Holds, ValidIn
      <4>e. \A v \in Hosts, n \in Messages : Invalidates(v, n)' =>
              Invalidates(v, n) \/ (v = w /\ n = m)
        BY <2>a, <4>b, <4>c DEF Invalidates, OthersStay
      <4>1. RoutesStamped'
        BY <2>a, <2>b, <4>a, <4>b, <4>c DEF RoutesStamped, Stamped, OthersStay
      <4>2. WrittenOnce'
        BY <2>a, <2>b, <4>c, <4>d, <4>e DEF WrittenOnce, OthersStay
      <4>3. NotInBoth'
        BY <2>b, <4>c DEF NotInBoth, ValidIn, Holds
      <4>4. InvalidatedIsLive'
        BY <2>b, <4>c, <4>d, <4>e DEF InvalidatedIsLive, NotInBoth
      <4>5. RevokedIsGone'
        BY <2>b, <4>c DEF RevokedIsGone, ValidIn, Holds
      <4>. QED
        BY <4>1, <4>2, <4>3, <4>4, <4>5 DEF RouteInv
    <3>6. CASE Opens(w)
      <4>a. /\ route'.live = route.live /\ route'.tmp.doc = NoDoc /\ UNCHANGED <<called, stamped, revoked>>
            /\ pc[w] = "open_route" /\ pc'[w] = "write_route" /\ turn'[w] = turn[w]
            /\ draft'[w] = draft[w] /\ OthersStay(w)
        BY <2>c, <3>6 DEF Opens, Stays
      <4>b. /\ \A n \in Messages : ~Holds(route'.tmp, n) /\ ~ValidIn(route'.tmp, n)
            /\ \A v \in Hosts, n \in Messages : Invalidates(v, n)' = Invalidates(v, n)
        BY <4>a DEF Holds, ValidIn, Invalidates, OthersStay, AtRoute
      <4>1. RoutesStamped'
        BY <2>b, <4>a DEF RoutesStamped, Stamped, OthersStay, AtRoute
      <4>2. WrittenOnce'
        BY <2>b, <4>a, <4>b DEF WrittenOnce, OthersStay
      <4>3. NotInBoth'
        BY <4>b DEF NotInBoth
      <4>4. InvalidatedIsLive'
        BY <4>b DEF InvalidatedIsLive
      <4>5. RevokedIsGone'
        BY <2>a, <2>b, <4>a, <4>b DEF RevokedIsGone, TypeOK
      <4>. QED
        BY <4>1, <4>2, <4>3, <4>4, <4>5 DEF RouteInv
    <3>7. CASE Writes(w)
      <4>a. /\ pc[w] = "write_route" /\ pc'[w] = "replace_route" /\ turn'[w] = turn[w]
            /\ draft'[w] = draft[w] /\ OthersStay(w) /\ UNCHANGED <<called, stamped, revoked>>
            /\ draft[w].doc \in RouteDoc /\ pc[w] \in AtRoute
        BY <2>d, <3>7 DEF Writes, Stays, AtRoute
      <4>b. /\ \/ route'.live = route.live
               \/ Exists(route.live) /\ route'.live.doc \in {draft[w].doc, NoDoc}
            /\ \/ route'.tmp = route.tmp
               \/ Exists(route.tmp) /\ route'.tmp.doc \in {draft[w].doc, NoDoc}
            /\ route'.live = route.live \/ route'.tmp = route.tmp
        <5>1. \A old, new : Result(w, old, new) => new.doc \in {draft[w].doc, NoDoc}
          BY DEF Result, Text
        <5>. QED
          BY <2>a, <3>7, <5>1 DEF Writes, DescriptorsOpen
      <4>c. /\ \A n \in Messages :
                  /\ Holds(route'.live, n) => Holds(route.live, n) \/ draft[w].doc.turn = n
                  /\ Holds(route'.tmp, n) => Holds(route.tmp, n) \/ draft[w].doc.turn = n
            /\ \A v \in Hosts, n \in Messages : Invalidates(v, n)' = Invalidates(v, n)
        BY <4>a, <4>b DEF Holds, Invalidates, OthersStay, AtRoute
      <4>d. /\ Stamped(draft[w].doc)
            /\ IF turn[w] = Invalidation
               THEN /\ ~draft[w].doc.valid
                    /\ \A n \in Messages : draft[w].doc.turn = n => Invalidates(w, n)
               ELSE draft[w].doc.turn = turn[w] /\ turn[w] \in Messages
        BY <2>a, <2>b, <4>a DEF RoutesStamped, Invalidates, TypeOK
      <4>e. \A n \in Messages :
              /\ ValidIn(route'.live, n) => ValidIn(route.live, n) \/ turn[w] = n
              /\ ValidIn(route'.tmp, n) => ValidIn(route.tmp, n) \/ turn[w] = n
        BY <4>a, <4>b, <4>d DEF ValidIn, Holds
      <4>f. turn[w] \in Messages => /\ ~Holds(route.live, turn[w]) /\ ~Holds(route.tmp, turn[w])
                                    /\ turn[w] \notin revoked
                                    /\ \A v \in Hosts : ~Invalidates(v, turn[w])
        BY <2>b, <4>a DEF WrittenOnce
      <4>1. RoutesStamped'
        BY <2>b, <4>a, <4>b, <4>d DEF RoutesStamped, Stamped, OthersStay, AtRoute
      <4>2. WrittenOnce'
        <5> SUFFICES ASSUME NEW n \in Messages,
                            \/ Holds(route'.live, n) \/ Holds(route'.tmp, n) \/ n \in revoked
                            \/ \E v \in Hosts : Invalidates(v, n)
                     PROVE  /\ HookOf(n) \in called[n]
                            /\ \A v \in Hosts : turn[v] = n => pc'[v] \in {"replace_route", "submit"}
          BY <4>a, <4>c DEF WrittenOnce, OthersStay
        <5>1. CASE turn[w] = n
          BY <2>a, <4>a, <5>1 DEF OneHandler
        <5>2. CASE turn[w] # n
          <6>1. \/ Holds(route.live, n) \/ Holds(route.tmp, n) \/ n \in revoked
                \/ \E v \in Hosts : Invalidates(v, n)
            BY <4>c, <4>d, <5>2
          <6>. QED
            BY <2>b, <4>a, <6>1 DEF WrittenOnce, OthersStay
        <5>. QED
          BY <5>1, <5>2
      <4>3. NotInBoth'
        <5>1. \A n \in Messages : ~(ValidIn(route'.live, n) /\ ValidIn(route'.tmp, n))
          BY <2>b, <4>b, <4>e, <4>f DEF NotInBoth, ValidIn
        <5>. QED
          BY <5>1 DEF NotInBoth, ValidIn, Holds
      <4>4. InvalidatedIsLive'
        BY <2>b, <4>c, <4>e, <4>f DEF InvalidatedIsLive
      <4>5. RevokedIsGone'
        BY <2>a, <2>b, <4>a, <4>e, <4>f DEF RevokedIsGone, TypeOK
      <4>. QED
        BY <4>1, <4>2, <4>3, <4>4, <4>5 DEF RouteInv
    <3>8. CASE Replaces(w)
      <4>1. RoutesStamped'
        BY <2>b, <3>8 DEF Replaces, Rests, Stays, OthersStay, RoutesStamped, Stamped, Exists, AtRoute
      <4>2. WrittenOnce'
        BY <2>a, <2>b, <3>8 DEF Replaces, Rests, Stays, OthersStay, WrittenOnce, Holds, Invalidates,
               Exists, AtRoute
      <4>3. NotInBoth'
        BY <3>8 DEF Replaces, NotInBoth, ValidIn, Holds, Exists
      <4>4. InvalidatedIsLive'
        BY <3>8 DEF Replaces, InvalidatedIsLive, ValidIn, Holds, Exists
      <4>5. RevokedIsGone'
        <5>1. \A n : ~ValidIn(route'.tmp, n)
          BY <3>8 DEF Replaces, ValidIn, Holds, Exists
        <5>2. \A n \in revoked' : ~ValidIn(route.tmp, n)
          <6>1. CASE turn[w] = Invalidation
            <7>1. draft[w].doc.turn \in Messages /\ Invalidates(w, draft[w].doc.turn)
              BY <2>d, <3>8, <6>1 DEF Replaces, Invalidates, AtRoute, RouteDoc
            <7>. QED
              BY <2>b, <3>8, <7>1 DEF Replaces, RevokedIsGone, InvalidatedIsLive
          <6>2. CASE turn[w] # Invalidation
            BY <2>b, <3>8, <6>2 DEF Replaces, RevokedIsGone
          <6>. QED
            BY <6>1, <6>2
        <5>. QED
          BY <3>8, <5>1, <5>2 DEF Replaces, RevokedIsGone
      <4>. QED
        BY <4>1, <4>2, <4>3, <4>4, <4>5 DEF RouteInv
    <3>9. CASE Submits(w)
      <4>1. RoutesStamped'
        BY <2>b, <3>9 DEF Submits, Rests, OthersStay, RoutesStamped, Stamped, AtRoute
      <4>2. WrittenOnce'
        BY <2>a, <2>b, <3>9 DEF Submits, Rests, OthersStay, WrittenOnce, Invalidates, AtRoute
      <4>3. NotInBoth'
        BY <2>b, <3>9 DEF Submits, NotInBoth
      <4>4. InvalidatedIsLive'
        BY <2>b, <3>9 DEF Submits, Rests, OthersStay, InvalidatedIsLive, Invalidates, AtRoute
      <4>5. RevokedIsGone'
        BY <2>b, <3>9 DEF Submits, RevokedIsGone
      <4>. QED
        BY <4>1, <4>2, <4>3, <4>4, <4>5 DEF RouteInv
    <3>. QED
      BY <2>1, HookStepEffect, <3>1, <3>2, <3>3, <3>4, <3>5, <3>6, <3>7, <3>8, <3>9, <3>10
  <2>2. CASE Tick \/ UNCHANGED vars
    BY <2>2 DEF Tick, vars, local, ghost, RouteInv, RoutesStamped, WrittenOnce, NotInBoth,
           InvalidatedIsLive, RevokedIsGone, Stamped, Invalidates
  <2>. QED
    BY <2>1, <2>2 DEF Next
<1>3. QED
  BY <1>1, <1>2, TypeCorrect, HookInvariant, PTL DEF Spec

\* Whatever hooks overlap, fail or crash, and whatever the configuration says, a
\* contact with no exact target of its own goes to the configured one or to a
\* route the owner wrote from at most MaxAge ago and that was not revoked since.
THEOREM ContactsStay == Spec => []ContactsStayOnTheRoute
<1>1. TypeInv /\ RouteInv => ContactsStayOnTheRoute
  <2> SUFFICES ASSUME TypeInv, RouteInv, NEW requested \in Requests \ Targets,
                      ExecutionTarget(requested) \in Targets,
                      ExecutionTarget(requested) # Configured
               PROVE  \E m \in Messages \ revoked :
                        /\ stamped[m] # Gone /\ TargetOf[m] = ExecutionTarget(requested)
                        /\ clock - stamped[m] <= MaxAge
    BY DEF ContactsStayOnTheRoute
  <2>a. TypeOK
    BY DEF TypeInv
  <2>1. /\ Candidate(requested) \in Targets /\ Candidate(requested) # Configured
        /\ ExecutionTarget(requested) = Candidate(requested)
    BY IngressAssumption DEF ExecutionTarget
  <2>2. RouteStatus = "fresh" /\ Candidate(requested) = Loaded(route).target
    BY <2>1, IngressAssumption DEF Candidate
  <2>3. /\ Loaded(route) # NoDoc /\ Loaded(route).valid
        /\ ~(MaxAge = 0 \/ clock - Loaded(route).at > MaxAge)
    BY <2>2 DEF RouteStatus, Status
  <2>4. Exists(route.live) /\ Loaded(route) = route.live.doc /\ route.live.doc \in RouteDoc
    BY <2>a, <2>3 DEF Loaded, Exists, TypeOK, RouteText
  <2>5. /\ route.live.doc.turn \in Messages /\ ValidIn(route.live, route.live.doc.turn)
        /\ stamped[route.live.doc.turn] = route.live.doc.at
        /\ TargetOf[route.live.doc.turn] = route.live.doc.target
    BY <2>3, <2>4 DEF RouteInv, RoutesStamped, Stamped, ValidIn, Holds, RouteDoc
  <2>6. route.live.doc.turn \notin revoked
    BY <2>5 DEF RouteInv, RevokedIsGone
  <2>7. stamped[route.live.doc.turn] # Gone
    BY <2>4, <2>5, IngressAssumption DEF RouteDoc
  <2>8. clock - route.live.doc.at <= MaxAge
    BY <2>a, <2>3, <2>4, IngressAssumption DEF TypeOK, RouteDoc
  <2>. QED
    BY <2>1, <2>2, <2>4, <2>5, <2>6, <2>7, <2>8
<1>. QED
  BY <1>1, TypeCorrect, RouteInvariant, PTL
-----------------------------------------------------------------------------
(* One writer at a time.  Unless two writers have met, what the file holds can *)
(* be told from where the one writer is, and routes replace older ones only.  *)

\* No route is from the future, stored or about to be.
NobodyAhead ==
    /\ \A w \in Hosts : pc[w] \in AtRoute => draft[w].doc.at <= clock
    /\ Exists(route.live) /\ route.live.doc # NoDoc => route.live.doc.at <= clock
    /\ Exists(route.tmp) /\ route.tmp.doc # NoDoc => route.tmp.doc.at <= clock

\* The writer has the temporary file to itself, the live file is whole, and a
\* gateway hook with its percept yet to submit finds its route, or a later one.
OneWriter ==
    /\ \A v, w \in Hosts : pc[v] \in AtRoute /\ pc[w] \in AtRoute => v = w
    /\ route.atLive = {}
    /\ Exists(route.live) => route.live.doc # NoDoc
    /\ \A w \in Hosts :
          /\ pc[w] = "write_route" => w \in route.atTmp /\ route.tmp = Empty
          /\ pc[w] = "replace_route" => route.tmp = draft[w]
          /\ pc[w] \in AtRoute /\ Exists(route.live) => route.live.doc.at <= draft[w].doc.at
          /\ pc[w] = "submit" /\ TargetOf[turn[w]] \in Targets =>
                /\ Exists(route.live) /\ stamped[turn[w]] # Gone
                /\ stamped[turn[w]] <= route.live.doc.at

OrderInv == NobodyAhead /\ (~overlapped => OneWriter)

\* As long as no two writers have met, where the one writer is tells what the
\* files hold, and no route is replaced by an older one.
THEOREM OrderInvariant == Spec => []OrderInv
<1>1. Init => OrderInv
  BY DEF Init, NewFile, Exists, OrderInv, NobodyAhead, OneWriter, AtRoute
<1>2. TypeInv /\ HookInv /\ RouteInv /\ OrderInv /\ [Next]_vars => OrderInv'
  <2> SUFFICES ASSUME TypeInv, HookInv, RouteInv, OrderInv, [Next]_vars PROVE OrderInv'
    OBVIOUS
  <2>a. /\ TypeOK /\ HooksKnowTurn /\ DescriptorsOpen /\ OneHandler /\ RoutesStamped
        /\ NoDoc \notin RouteDoc /\ Invalidation \notin Messages /\ Gone \notin 0..MaxTime
    BY IngressAssumption DEF TypeInv, HookInv, RouteInv
  <2>b. NobodyAhead /\ (~overlapped => OneWriter)
    BY DEF OrderInv
  <2>c. Empty.doc = NoDoc /\ \A n : Text(NoDoc, n).doc = NoDoc
    BY DEF Empty, Text
  <2>d. /\ Exists(route.live) => route.live.doc \in RouteDoc \cup {NoDoc}
        /\ Exists(route.tmp) => route.tmp.doc \in RouteDoc \cup {NoDoc}
        /\ \A v \in Hosts : pc[v] \in AtRoute => draft[v].doc \in RouteDoc
        /\ \A doc \in RouteDoc : doc.at \in Nat
        /\ clock \in Nat
    BY <2>a DEF TypeOK, RouteText, RouteDoc, Exists, HooksKnowTurn
  <2>1. ASSUME NEW w \in Hosts, HookStep(w) PROVE OrderInv'
    <3>10. ASSUME NEW m \in Messages, Ignores(m) PROVE OrderInv'
      BY <2>b, <3>10 DEF Ignores, OrderInv, NobodyAhead, OneWriter
    <3>1. ASSUME NEW m \in Messages, TakesUp(w, m) PROVE OrderInv'
      <4>1. NobodyAhead'
        BY <2>b, <3>1 DEF TakesUp, OthersStay, NobodyAhead, AtRoute
      <4>2. ASSUME ~overlapped' PROVE OneWriter'
        BY <2>a, <2>b, <3>1, <4>2 DEF TakesUp, OthersStay, OneWriter, OneHandler, AtRoute
      <4>. QED
        BY <4>1, <4>2 DEF OrderInv
    <3>2. CASE Ends(w)
      <4>1. NobodyAhead'
        BY <2>b, <3>2 DEF Ends, Rests, OthersStay, NobodyAhead, AtRoute
      <4>2. ASSUME ~overlapped' PROVE OneWriter'
        BY <2>b, <3>2, <4>2 DEF Ends, Rests, OthersStay, OneWriter, AtRoute
      <4>. QED
        BY <4>1, <4>2 DEF OrderInv
    <3>3. CASE GoesOn(w)
      <4>1. NobodyAhead'
        BY <2>b, <3>3 DEF GoesOn, Stays, OthersStay, NobodyAhead, AtRoute, Advising
      <4>2. ASSUME ~overlapped' PROVE OneWriter'
        BY <2>b, <3>3, <4>2 DEF GoesOn, Stays, OthersStay, OneWriter, AtRoute, Advising
      <4>. QED
        BY <4>1, <4>2 DEF OrderInv
    <3>4. CASE StartsSave(w)
      <4>1. NobodyAhead'
        BY <2>b, <2>d, <3>4 DEF StartsSave, Starts, Route, OthersStay, NobodyAhead
      <4>2. ASSUME ~overlapped' PROVE OneWriter'
        <5>1. PICK m \in Messages :
                /\ m = turn[w] /\ pc[w] = "gateway" /\ pc'[w] = "open_route"
                /\ turn'[w] = m /\ draft'[w].doc.at = clock /\ OthersStay(w)
                /\ stamped' = [stamped EXCEPT ![m] = clock] /\ route' = route
          <6>1. turn[w] \in Messages
            BY <2>a, <3>4 DEF StartsSave, HooksKnowTurn, Advising
          <6>2. Route(turn[w], clock).at = clock
            BY DEF Route
          <6>. QED
            BY <3>4, <6>1, <6>2 DEF StartsSave, Starts
        <5>2. OneWriter /\ \A v \in Hosts \ {w} : pc[v] \notin AtRoute
          BY <2>b, <3>4, <4>2 DEF StartsSave, Starts
        <5>3. Exists(route.live) => route.live.doc # NoDoc /\ route.live.doc.at <= clock
          BY <2>b, <5>2 DEF OneWriter, NobodyAhead
        <5>4. \A v \in Hosts \ {w} : stamped'[turn[v]] = stamped[turn[v]]
          BY <2>a, <5>1 DEF OneHandler, TypeOK
        <5>. QED
          BY <5>1, <5>2, <5>3, <5>4 DEF OneWriter, OthersStay
      <4>. QED
        BY <4>1, <4>2 DEF OrderInv
    <3>5. CASE StartsInvalidation(w)
      <4>1. NobodyAhead'
        BY <2>b, <2>d, <3>5 DEF StartsInvalidation, Starts, RouteDoc, OthersStay, NobodyAhead
      <4>2. ASSUME ~overlapped' PROVE OneWriter'
        BY <2>b, <2>d, <3>5, <4>2 DEF StartsInvalidation, Starts, RouteDoc, OthersStay, OneWriter
      <4>. QED
        BY <4>1, <4>2 DEF OrderInv
    <3>6. CASE Opens(w)
      <4>1. NobodyAhead'
        BY <2>b, <2>c, <3>6 DEF Opens, Stays, OthersStay, NobodyAhead, AtRoute
      <4>2. ASSUME ~overlapped' PROVE OneWriter'
        BY <2>b, <3>6, <4>2 DEF Opens, Stays, OthersStay, OneWriter, AtRoute
      <4>. QED
        BY <4>1, <4>2 DEF OrderInv
    <3>7. CASE Writes(w)
      <4>1. NobodyAhead'
        <5>1. \A old, new : Result(w, old, new) => new.doc \in {draft[w].doc, NoDoc}
          BY DEF Result, Text
        <5>. QED
          BY <2>b, <3>7, <5>1 DEF Writes, Stays, OthersStay, NobodyAhead, AtRoute
      <4>2. ASSUME ~overlapped' PROVE OneWriter'
        BY <2>b, <3>7, <4>2 DEF Writes, Stays, OthersStay, OneWriter, AtRoute
      <4>. QED
        BY <4>1, <4>2 DEF OrderInv
    <3>8. CASE Replaces(w)
      <4>1. NobodyAhead'
        BY <2>b, <3>8 DEF Replaces, Rests, Stays, OthersStay, NobodyAhead, AtRoute, Exists
      <4>2. ASSUME ~overlapped' PROVE OneWriter'
        <5>1. /\ OneWriter /\ pc[w] = "replace_route" /\ route.tmp = draft[w] /\ Exists(route.tmp)
              /\ \A v \in Hosts \ {w} : pc[v] \notin AtRoute
          BY <2>b, <3>8, <4>2 DEF Replaces, OneWriter, AtRoute
        <5>2. /\ route'.live = draft[w] /\ draft[w].doc \in RouteDoc /\ route'.atLive = {}
              /\ UNCHANGED stamped /\ OthersStay(w) /\ pc'[w] \in {"idle", "submit"}
              /\ pc'[w] = "submit" => turn[w] # Invalidation /\ turn'[w] = turn[w]
          <6>1. route.atTmp = {}
            BY <2>a, <5>1 DEF DescriptorsOpen, AtRoute, TypeOK
          <6>. QED
            BY <2>d, <3>8, <5>1, <6>1 DEF Replaces, Stays, Rests, AtRoute
        <5>3. turn[w] # Invalidation =>
                stamped[turn[w]] = draft[w].doc.at /\ stamped[turn[w]] # Gone
          <6>1. turn[w] # Invalidation => stamped[turn[w]] = draft[w].doc.at
            BY <2>a, <2>d, <5>1 DEF RoutesStamped, Stamped, AtRoute
          <6>2. draft[w].doc.at \in 0..MaxTime
            BY <5>2 DEF RouteDoc
          <6>. QED
            BY <2>a, <6>1, <6>2
        <5>4. ASSUME NEW v \in Hosts, v # w, pc[v] = "submit", TargetOf[turn[v]] \in Targets
              PROVE  stamped[turn[v]] # Gone /\ stamped[turn[v]] <= draft[w].doc.at
          <6>1. /\ Exists(route.live) /\ stamped[turn[v]] <= route.live.doc.at
                /\ stamped[turn[v]] # Gone
                /\ route.live.doc.at <= draft[w].doc.at /\ route.live.doc # NoDoc
            BY <5>1, <5>4 DEF OneWriter, AtRoute
          <6>2. route.live.doc.at \in Nat /\ draft[w].doc.at \in Nat /\ stamped[turn[v]] \in Nat
            <7>1. turn[v] \in Messages /\ stamped[turn[v]] # Gone
              BY <2>a, <5>4, <6>1 DEF HooksKnowTurn, Advising
            <7>2. stamped[turn[v]] \in Nat
              BY <2>a, <7>1, IngressAssumption DEF TypeOK
            <7>. QED
              BY <2>d, <5>2, <6>1, <7>2
          <6>. QED
            BY <6>1, <6>2
        <5>5. draft[w].doc # NoDoc /\ draft[w].doc.at <= draft[w].doc.at
          BY <2>a, <2>d, <5>2
        <5>. QED
          BY <5>1, <5>2, <5>3, <5>4, <5>5 DEF OneWriter, OthersStay, AtRoute
      <4>. QED
        BY <4>1, <4>2 DEF OrderInv
    <3>9. CASE Submits(w)
      <4>1. NobodyAhead'
        BY <2>b, <3>9 DEF Submits, Rests, OthersStay, NobodyAhead, AtRoute
      <4>2. ASSUME ~overlapped' PROVE OneWriter'
        BY <2>b, <3>9, <4>2 DEF Submits, Rests, OthersStay, OneWriter, AtRoute
      <4>. QED
        BY <4>1, <4>2 DEF OrderInv
    <3>. QED
      BY <2>1, HookStepEffect, <3>1, <3>2, <3>3, <3>4, <3>5, <3>6, <3>7, <3>8, <3>9, <3>10
  <2>2. CASE Tick
    BY <2>d, <2>2 DEF Tick, local, ghost, OrderInv, NobodyAhead, OneWriter
  <2>3. CASE UNCHANGED vars
    BY <2>3 DEF vars, local, ghost, OrderInv, NobodyAhead, OneWriter
  <2>. QED
    BY <2>1, <2>2, <2>3 DEF Next
<1>3. QED
  BY <1>1, <1>2, TypeCorrect, HookInvariant, RouteInvariant, PTL DEF Spec

\* Unless two writers met in it, the file a reader sees is never half written,
\* wherever a write fails or a process dies.
THEOREM RouteStaysWhole == Spec => []RouteIsWhole
<1>1. OrderInv => RouteIsWhole
  BY DEF OrderInv, OneWriter, RouteIsWhole, Loaded
<1>. QED
  BY <1>1, OrderInvariant, PTL

\* Unless two writers met in the file, the percept of a gateway message is
\* submitted after its route, or a later one, was stored.
THEOREM RouteComesFirst == Spec => RouteBeforePercept
<1>1. TypeInv /\ HookInv /\ OrderInv /\ [Next]_vars =>
        [\A m \in Messages :
            submitted'[m] > submitted[m] /\ TargetOf[m] \in Targets /\ ~overlapped =>
              Loaded(route) # NoDoc /\ Loaded(route).at >= stamped[m]]_vars
  <2> SUFFICES ASSUME TypeInv, HookInv, OrderInv, Next, NEW m \in Messages,
                      submitted'[m] > submitted[m], TargetOf[m] \in Targets, ~overlapped
               PROVE  Loaded(route) # NoDoc /\ Loaded(route).at >= stamped[m]
    OBVIOUS
  <2>1. submitted[m] \in Nat /\ submitted \in [Messages -> Nat]
    BY DEF TypeInv, TypeOK
  <2>2. submitted' # submitted
    BY <2>1
  <2>3. PICK w \in Hosts : Submits(w)
    BY <2>2, HookStepEffect DEF Next, Tick, ghost, TakesUp, Ignores, Ends, GoesOn,
           StartsSave, StartsInvalidation, Starts, Opens, Writes, Replaces
  <2>4. turn[w] = m /\ pc[w] = "submit"
    BY <2>1, <2>3 DEF Submits
  <2>5. /\ Exists(route.live) /\ route.live.doc # NoDoc
        /\ stamped[m] # Gone /\ stamped[m] <= route.live.doc.at
    BY <2>4 DEF OrderInv, OneWriter
  <2>6. route.live.doc.at \in Nat /\ stamped[m] \in Nat
    <3>1. route.live.doc \in RouteDoc /\ clock \in 0..MaxTime
      BY <2>5 DEF TypeInv, TypeOK, RouteText, Exists
    <3>2. stamped[m] \in 0..MaxTime
      BY <2>5 DEF TypeInv, TypeOK
    <3>. QED
      BY <3>1, <3>2, IngressAssumption DEF RouteDoc
  <2>. QED
    BY <2>5, <2>6 DEF Loaded
<1>. QED
  BY <1>1, TypeCorrect, HookInvariant, OrderInvariant, PTL DEF Spec, RouteBeforePercept
=============================================================================
