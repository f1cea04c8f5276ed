---------------------------- MODULE WorkProducer ----------------------------
(***************************************************************************)
(* The work producer of the plugin: terminal metadata of the tools of a    *)
(* turn is kept in a bounded, expiring registry, and a declared work event *)
(* is bound to the newest matching tool calls of its own turn.             *)
(*                                                                         *)
(* Covered: hooks of several tool calls on concurrent threads, the clock   *)
(* they read before they take the lock, pruning, the bound on contexts     *)
(* (least recently observed goes first) and on the evidence of a context,  *)
(* selection, and an ingress that accepts, refuses or times out.           *)
(*                                                                         *)
(* Left out: validation of the declaration, the semantic text, digests     *)
(* (taken to be distinct), HTTP framing, the content-free activity posts   *)
(* (no state; what they cause is in WorkLedger).                           *)
(***************************************************************************)
EXTENDS Integers, Sequences, FiniteSets, Functions

CONSTANTS
    Contexts,       \* (session, turn) pairs
    Workers,        \* threads running the post_tool_call hook
    Counts,         \* evidence_count a declaration may ask for
    MaxContexts,    \* max_contexts (256)
    MaxPerContext,  \* max_per_context (16)
    Ttl,            \* ttl_seconds (1800)
    MaxTime,        \* bound: how far the clock runs
    MaxTools        \* bound: tool calls observed

ASSUME ProducerAssumption ==
    /\ Contexts # {} /\ Counts # {} /\ Counts \subseteq Nat \ {0}
    /\ MaxContexts \in Nat \ {0} /\ MaxPerContext \in Nat \ {0}
    /\ Ttl \in Nat /\ MaxTime \in Nat /\ MaxTools \in Nat \ {0}

EventType == {"verified_completion", "blocked_needs_owner", "material_failure"}
ToolEvidence == [ref : 1..MaxTools, context : Contexts, status : {"ok", "error"},
                 at : 0..MaxTime]

VARIABLES
    order,     \* contexts of the registry, least recently observed first
    bucket,    \* evidence of each context, oldest first
    clock,     \* time.monotonic()
    pc,        \* where each hook is
    seen,      \* the evidence a hook is about to record
    asked,     \* the declaration a hook is about to bind
    bound,     \* the evidence bound to it
    log,       \* ghost: evidence in the order it was recorded
    tools      \* bound counter, and the reference of the next tool call

registry == <<order, bucket>>
producerVars == <<registry, clock, pc, seen, asked, bound, log, tools>>

Declaration == [context : Contexts, type : EventType, count : Counts, now : 0..MaxTime]
NoTool == CHOOSE e \in ToolEvidence : e.at = 0
NoDeclaration == CHOOSE d \in Declaration : d.now = 0

ProducerTypeOK ==
    /\ order \in Seq(Contexts) /\ Len(order) <= MaxContexts
    /\ bucket \in [Contexts -> Seq(ToolEvidence)]
    /\ \A c \in Contexts : /\ Len(bucket[c]) <= MaxPerContext
                           /\ bucket[c] # <<>> <=> c \in Range(order)
    /\ clock \in 0..MaxTime
    /\ pc \in [Workers -> {"idle", "record", "select", "post"}]
    /\ seen \in [Workers -> ToolEvidence]
    /\ asked \in [Workers -> Declaration]
    /\ bound \in [Workers -> Seq(ToolEvidence)]
    /\ log \in Seq(ToolEvidence)
    /\ tools \in 0..MaxTools

ProducerInit ==
    /\ order = <<>>
    /\ bucket = [c \in Contexts |-> <<>>]
    /\ clock = 0
    /\ pc = [w \in Workers |-> "idle"]
    /\ seen = [w \in Workers |-> NoTool]
    /\ asked = [w \in Workers |-> NoDeclaration]
    /\ bound = [w \in Workers |-> <<>>]
    /\ log = <<>>
    /\ tools = 0
-----------------------------------------------------------------------------
(* HermesToolEvidenceRegistry, each method under its lock *)

\* A comprehension over a list: the members of T, in their order.
Only(s, T) ==
    LET F[n \in 0..Len(s)] == IF n = 0 THEN <<>>
                              ELSE IF s[n] \in T THEN Append(F[n - 1], s[n]) ELSE F[n - 1]
    IN  F[Len(s)]

LastOf(s, n) == SubSeq(s, IF Len(s) > n THEN Len(s) - n + 1 ELSE 1, Len(s))

\* _prune keeps this much of a bucket.
Fresh(now) == {e \in ToolEvidence : now - e.at <= Ttl}

Pruned(now) == [c \in Contexts |-> Only(bucket[c], Fresh(now))]
Live(buckets) == Only(order, {c \in Contexts : buckets[c] # <<>>})

\* setdefault and move_to_end.
MovedToEnd(contexts, c) == Append(Only(contexts, Contexts \ {c}), c)

\* Mutant: popitem takes the newest context.
KeptOldest(contexts) == SubSeq(contexts, 1, IF Len(contexts) > MaxContexts
                                            THEN MaxContexts ELSE Len(contexts))

\* popitem(last=False) until the registry fits.
Kept(contexts) == LastOf(contexts, MaxContexts)

\* observe reads the clock before it takes the lock.
ToolEnds(w, c, status) ==
    /\ pc[w] = "idle" /\ tools < MaxTools
    /\ tools' = tools + 1
    /\ seen' = [seen EXCEPT ![w] = [ref |-> tools', context |-> c,
                                    status |-> status, at |-> clock]]
    /\ pc' = [pc EXCEPT ![w] = "record"]
    /\ UNCHANGED <<registry, clock, asked, bound, log>>

Observe(w) ==
    LET e    == seen[w]
        left == [Pruned(e.at) EXCEPT ![e.context] = LastOf(Append(@, e), MaxPerContext)]
        kept == Kept(MovedToEnd(Live(Pruned(e.at)), e.context))
    IN  /\ pc[w] = "record"
        /\ order' = kept
        /\ bucket' = [c \in Contexts |-> IF c \in Range(kept) THEN left[c] ELSE <<>>]
        /\ log' = Append(log, e)
        /\ pc' = [pc EXCEPT ![w] = "idle"]
        /\ seen' = [seen EXCEPT ![w] = NoTool]
        /\ UNCHANGED <<clock, asked, bound, tools>>

\* The report tool itself has ended well; select reads the clock first, too.
Declare(w, c, type, count) ==
    /\ pc[w] = "idle"
    /\ asked' = [asked EXCEPT ![w] = [context |-> c, type |-> type,
                                      count |-> count, now |-> clock]]
    /\ pc' = [pc EXCEPT ![w] = "select"]
    /\ UNCHANGED <<registry, clock, seen, bound, log, tools>>

Supports(type) ==
    {e \in ToolEvidence : \/ type = "blocked_needs_owner"
                          \/ type = "verified_completion" /\ e.status = "ok"
                          \/ type = "material_failure" /\ e.status # "ok"}

Chosen(candidates, count) == LastOf(candidates, count)

Select(w) ==
    LET d == asked[w]
        candidates == Only(Pruned(d.now)[d.context], Supports(d.type))
    IN  /\ pc[w] = "select"
        /\ order' = Live(Pruned(d.now))
        /\ bucket' = Pruned(d.now)
        /\ \/ /\ Len(candidates) < d.count
              /\ pc' = [pc EXCEPT ![w] = "idle"]
              /\ asked' = [asked EXCEPT ![w] = NoDeclaration]
              /\ UNCHANGED bound
           \/ /\ Len(candidates) >= d.count
              /\ bound' = [bound EXCEPT ![w] = Chosen(candidates, d.count)]
              /\ pc' = [pc EXCEPT ![w] = "post"]
              /\ UNCHANGED asked
        /\ UNCHANGED <<clock, seen, log, tools>>

\* post_event: one request, never retried, whatever becomes of it.
Post(w) ==
    /\ pc[w] = "post"
    /\ asked' = [asked EXCEPT ![w] = NoDeclaration]
    /\ bound' = [bound EXCEPT ![w] = <<>>]
    /\ pc' = [pc EXCEPT ![w] = "idle"]
    /\ UNCHANGED <<registry, clock, seen, log, tools>>

Tick ==
    /\ clock < MaxTime
    /\ clock' = clock + 1
    /\ UNCHANGED <<registry, pc, seen, asked, bound, log, tools>>

ProducerNext ==
    \/ \E w \in Workers : \E c \in Contexts :
         \/ \E status \in {"ok", "error"} : ToolEnds(w, c, status)
         \/ \E type \in EventType : \E count \in Counts : Declare(w, c, type, count)
    \/ \E w \in Workers : Observe(w) \/ Select(w) \/ Post(w)
    \/ Tick

ProducerSpec == ProducerInit /\ [][ProducerNext]_producerVars
-----------------------------------------------------------------------------
(* Properties *)

After(i) == {log[j] : j \in i + 1 .. Len(log)}

\* Evidence leaves the registry only for a reason: it is too old, its context
\* has collected MaxPerContext newer items, or MaxContexts other contexts have
\* been observed since. A busy neighbour never pushes out a context in use.
EvidenceRetained ==
    \A i \in DOMAIN log :
        LET e == log[i] IN
        \/ clock - e.at > Ttl
        \/ Cardinality({f \in After(i) : f.context = e.context}) >= MaxPerContext
        \/ Cardinality({f.context : f \in After(i)} \ {e.context}) >= MaxContexts
        \/ e \in Range(bucket[e.context])
=============================================================================
