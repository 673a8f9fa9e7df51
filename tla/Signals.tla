------------------------------- MODULE Signals -------------------------------
(***************************************************************************)
(* narf::Signal (lib/include/narf/signal.h), the list of callbacks through  *)
(* which a configuration reports a changed key (updateSignal, ini.h) and an *)
(* entity manager a deleted entity (onEntityDeleted, entity.h).             *)
(*                                                                          *)
(* The handlers are links of a doubly linked ring with a reference count    *)
(* each; a handler's ID is the address of its link.  A handler may do       *)
(* anything with the signal that calls it: connect, remove, emit.  What it  *)
(* does is one action each, between its call and its return.                *)
(***************************************************************************)
EXTENDS Integers, Sequences

CONSTANTS
  Addresses,    \* where links may be allocated, and allocated again once freed
  MaxConnects,  \* bound on the handlers connected
  MaxEmits      \* bound on the emissions, nested ones included

\* An address is not zero, which stands for the head's.
ASSUME SignalsAssumption ==
  /\ Addresses \subseteq Nat \ {0}
  /\ MaxConnects \in Nat /\ MaxEmits \in Nat

VARIABLES
  link,       \* the links allocated: [active, next, prev, refs]
  emissions,  \* the calls of emit() that have not returned, innermost last
  freedRead,  \* emit() has followed a pointer to a link already freed
  orphaned,   \* the link after one that was removed under an emission was removed too
  budget      \* what the bounds still allow

signalVars == <<link, emissions, freedRead, orphaned, budget>>

-----------------------------------------------------------------------------
RingHead == 0  \* callback_ring_, which exists from the first handler on

RingExists == RingHead \in DOMAIN link

\* The links reached from the head: those in every set that next does not leave.
Ring ==
  {a \in DOMAIN link \ {RingHead} :
     \A S \in SUBSET DOMAIN link :
       RingHead \in S /\ (\A b \in S : link[b].next \in S) => a \in S}

Restricted(l, S) == [a \in DOMAIN l \cap S |-> l[a]]

IncRef(l, a) == [l EXCEPT ![a].refs = @ + 1]

\* decref(): the last reference frees the link.
DecRef(l, a) ==
  IF l[a].refs = 1 THEN Restricted(l, DOMAIN l \ {a}) ELSE [l EXCEPT ![a].refs = @ - 1]

\* Mutant of Unlink: the link points nowhere but to the head afterwards.
UnlinkToHead(l, a) ==
  DecRef([l EXCEPT ![a].active = FALSE, ![a].next = RingHead,
                   ![l[a].next].prev = l[a].prev, ![l[a].prev].next = l[a].next], a)

\* Mutant of Unlink: the link is freed whoever refers to it.
UnlinkUncounted(l, a) ==
  Restricted([l EXCEPT ![l[a].next].prev = l[a].prev, ![l[a].prev].next = l[a].next],
             DOMAIN l \ {a})

\* unlink(): next and prev of the link itself stay, for emissions that stand on it.
Unlink(l, a) ==
  DecRef([l EXCEPT ![a].active = FALSE,
                   ![l[a].next].prev = l[a].prev, ![l[a].prev].next = l[a].next], a)

\* ensure_ring() with the default callback, or without one.
HeadOnly(active) ==
  [a \in {RingHead} |-> [active |-> active, next |-> RingHead, prev |-> RingHead, refs |-> 2]]

\* add_before() of the head: at the end of the ring.
AddBefore(l, new) ==
  LET last == l[RingHead].prev
      all  == [a \in DOMAIN l \cup {new} |->
                 IF a = new THEN [active |-> TRUE, next |-> RingHead, prev |-> last, refs |-> 1]
                 ELSE l[a]]
  IN [all EXCEPT ![last].next = new, ![RingHead].prev = new]

-----------------------------------------------------------------------------
\* A signal has a default callback from its construction, or no ring at all.
SignalInit ==
  /\ link \in {<<>>, HeadOnly(TRUE)}
  /\ emissions = <<>> /\ freedRead = FALSE /\ orphaned = FALSE
  /\ budget = [connects |-> MaxConnects, emits |-> MaxEmits]

Top == emissions[Len(emissions)]
Below == SubSeq(emissions, 1, Len(emissions) - 1)

\* The code outside, or a handler of the innermost emission, has control.
InControl == ~freedRead /\ (emissions # <<>> => Top.phase = "calling")

\* operator+=
Connect(a) ==
  /\ InControl /\ budget.connects > 0
  /\ a \notin DOMAIN link
  /\ link' = AddBefore(IF RingExists THEN link ELSE HeadOnly(FALSE), a)
  /\ budget' = [budget EXCEPT !.connects = @ - 1]
  /\ UNCHANGED <<emissions, freedRead, orphaned>>

\* operator-= with an ID of now or of earlier; only a handler in the ring is removed.
Disconnect(a) ==
  /\ InControl /\ a \in Ring
  /\ link' = Unlink(link, a)
  /\ emissions' = [k \in DOMAIN emissions |-> [emissions[k] EXCEPT !.due = @ \ {a}]]
  /\ orphaned' = (orphaned \/ \E k \in DOMAIN emissions :
                    LET at == emissions[k].at IN
                    at \in DOMAIN link \ (Ring \cup {RingHead}) /\ link[at].next = a)
  /\ UNCHANGED <<freedRead, budget>>

\* emit(), which returns at once when there is no ring.  due and calls keep, for the
\* properties, who has been connected ever since and how often each was called.
Emit ==
  /\ InControl /\ RingExists /\ budget.emits > 0
  /\ link' = IncRef(link, RingHead)
  /\ emissions' = Append(emissions,
       [at |-> RingHead, phase |-> "arrived",
        due |-> Ring \cup {a \in {RingHead} : link[a].active},
        calls |-> [a \in Addresses \cup {RingHead} |-> 0]])
  /\ budget' = [budget EXCEPT !.emits = @ - 1]
  /\ UNCHANGED <<freedRead, orphaned>>

SetTop(frame) == emissions' = [emissions EXCEPT ![Len(emissions)] = frame]

\* The link has a function: invoke it.
Call ==
  /\ emissions # <<>> /\ ~freedRead
  /\ Top.phase = "arrived" /\ link[Top.at].active
  /\ SetTop([Top EXCEPT !.phase = "calling", !.calls[Top.at] = @ + 1])
  /\ UNCHANGED <<link, freedRead, orphaned, budget>>

StepOn(l, old, new) == DecRef(IncRef(l, new), old)

\* On to the next link, which is held before the one left is released.  Touching a
\* freed link is undefined: the model goes no further.
Advance ==
  LET next == link[Top.at].next IN
  IF Top.at \notin DOMAIN link \/ next \notin DOMAIN link
    THEN freedRead' = TRUE /\ UNCHANGED <<link, emissions>>
    ELSE /\ link' = StepOn(link, Top.at, next)
         /\ SetTop([Top EXCEPT !.at = next, !.phase = IF next = RingHead THEN "done" ELSE "arrived"])
         /\ UNCHANGED freedRead

\* The link has lost its function, or has none.
Skip ==
  /\ emissions # <<>> /\ ~freedRead
  /\ Top.phase = "arrived" /\ ~link[Top.at].active
  /\ Advance /\ UNCHANGED <<orphaned, budget>>

\* The handler returns, and the collector goes on
Return ==
  /\ emissions # <<>> /\ ~freedRead /\ Top.phase = "calling"
  /\ Advance /\ UNCHANGED <<orphaned, budget>>

\* Mutant of LeaveRing: the reference of the emission stays.
LeaveRingHeld(l, at) == l

LeaveRing(l, at) == DecRef(l, at)

\* or ends the emission.
Stop ==
  /\ emissions # <<>> /\ ~freedRead /\ Top.phase = "calling"
  /\ link' = LeaveRing(link, Top.at) /\ emissions' = Below
  /\ UNCHANGED <<freedRead, orphaned, budget>>

\* The emission is back at the head.
Done ==
  /\ emissions # <<>> /\ Top.phase = "done"
  /\ link' = LeaveRing(link, RingHead) /\ emissions' = Below
  /\ UNCHANGED <<freedRead, orphaned, budget>>

SignalNext ==
  \/ \E a \in Addresses : Connect(a) \/ Disconnect(a)
  \/ Emit \/ Call \/ Skip \/ Return \/ Stop \/ Done

SignalSpec == SignalInit /\ [][SignalNext]_signalVars

-----------------------------------------------------------------------------
(***************************************************************************)
(* Properties.                                                              *)
(***************************************************************************)
\* "Callbacks may be removed and added during a signal emission and recursive emit()
\* calls are also safe" (signal.h) but for one case: emit() touches freed memory only
\* after a handler that was removed while an emission stood on it, and then the one
\* connected after it, were removed in this order.
SafeButForOrphans == freedRead => orphaned

\* An emission that runs to its end has called every handler connected all the while
\* exactly once, whatever its handlers did meanwhile.
CalledOnce ==
  ~orphaned =>
    \A k \in DOMAIN emissions : emissions[k].phase = "done" =>
      \A a \in emissions[k].due : emissions[k].calls[a] = 1

\* When no emission runs, the links that exist are those of the ring, each referred to
\* by the ring alone, and the ring reads the same both ways: nothing leaks, and no
\* emission that was cut short has left a reference behind.
RingSettles ==
  emissions = <<>> /\ RingExists =>
    /\ DOMAIN link = Ring \cup {RingHead}
    /\ link[RingHead].refs = 2 /\ \A a \in Ring : link[a].refs = 1
    /\ \A a \in DOMAIN link : link[link[a].next].prev = a /\ link[link[a].prev].next = a
=============================================================================
