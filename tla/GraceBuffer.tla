---------------------------- MODULE GraceBuffer -----------------------------
(***************************************************************************)
(* The reconnect grace buffer of hub/src/dispatch/grace.ts.  A dispatch    *)
(* that finds its target offline parks an entry (a replay thunk with a     *)
(* dedupe key and a time to live); a reconnect drains the target's entries *)
(* one after the other, each replayed, or expired when its time has        *)
(* lapsed; a periodic sweep expires the entries whose time has lapsed.     *)
(*                                                                         *)
(* Every caller parks with the same time to live, so the entries of a list *)
(* lapse in the order in which they were parked: time is abstracted to the *)
(* number of leading entries that have lapsed.  What a replay or an expiry *)
(* does belongs to whoever parked the entry: the module gives the buffer's *)
(* half of each step, its user adds the other half.                        *)
(***************************************************************************)
EXTENDS Integers, Sequences

CONSTANTS
    Target,  \* grace keys: the target session of an entry
    Entry,   \* what can be parked: one entry per dispatch request
    KeyOf,   \* KeyOf[e]: the dedupe key, the token of the request
    None

VARIABLES
    parked,  \* parked[g]: the entries parked for target g, oldest first
    stale,   \* stale[g]: how many of them, from the oldest on, have lapsed
    drains   \* drains[g]: the running loops of drain(g)

(* A loop of drain(): the entry whose thunk it awaits (None before the     *)
(* first), the entries it has still to reach, and how many of those had    *)
(* lapsed when the loop took the list.                                     *)
Loop == [cur : Entry \cup {None}, rest : Seq(Entry), stale : Nat]

GraceInit ==
    /\ parked = [g \in Target |-> << >>]
    /\ stale = [g \in Target |-> 0]
    /\ drains = [g \in Target |-> {}]

GraceTypeOK ==
    /\ parked \in [Target -> Seq(Entry)]
    /\ stale \in [Target -> Nat]
    /\ drains \in [Target -> SUBSET Loop]

(* A live entry with this key is parked for the target.                    *)
HasLive(g, k) == \E i \in stale[g] + 1 .. Len(parked[g]) : KeyOf[parked[g][i]] = k

(* register(): a key that is already parked and live is not parked again.  *)
Register(g, e) ==
    /\ parked' = IF HasLive(g, KeyOf[e]) THEN parked
                 ELSE [parked EXCEPT ![g] = Append(@, e)]
    /\ UNCHANGED <<stale, drains>>

(* The time to live of the oldest live entry passes.                       *)
Lapse(g) ==
    /\ stale[g] < Len(parked[g])
    /\ stale' = [stale EXCEPT ![g] = @ + 1]
    /\ UNCHANGED <<parked, drains>>

(* sweep(): remove the lapsed entries of every target.                     *)
Swept == {e \in Entry : \E g \in Target : \E i \in 1 .. stale[g] : parked[g][i] = e}

Sweep ==
    /\ \E g \in Target : stale[g] > 0
    /\ parked' = [g \in Target |-> SubSeq(parked[g], stale[g] + 1, Len(parked[g]))]
    /\ stale' = [g \in Target |-> 0]
    /\ UNCHANGED drains

(* Variant: the list is copied, not taken.                                 *)
BeginDrainOfCopy(g) ==
    /\ parked[g] # << >>
    /\ drains' = [drains EXCEPT ![g] =
                     @ \cup {[cur |-> None, rest |-> parked[g], stale |-> stale[g]]}]
    /\ UNCHANGED <<parked, stale>>

(* drain(): take the whole list and start a loop over it.                  *)
BeginDrain(g) ==
    /\ parked[g] # << >>
    /\ drains' = [drains EXCEPT ![g] =
                     @ \cup {[cur |-> None, rest |-> parked[g], stale |-> stale[g]]}]
    /\ parked' = [parked EXCEPT ![g] = << >>]
    /\ stale' = [stale EXCEPT ![g] = 0]

(* One turn of a loop: its next entry is expired or replayed ...           *)
Advance(g, d) ==
    /\ d \in drains[g]
    /\ d.rest # << >>
    /\ drains' = [drains EXCEPT ![g] = (@ \ {d}) \cup
                     {[cur   |-> Head(d.rest),
                       rest  |-> Tail(d.rest),
                       stale |-> IF d.stale > 0 THEN d.stale - 1 ELSE 0]}]
    /\ UNCHANGED <<parked, stale>>

(* ... and a loop with nothing left ends.                                  *)
EndDrain(g, d) ==
    /\ d \in drains[g]
    /\ d.rest = << >>
    /\ drains' = [drains EXCEPT ![g] = @ \ {d}]
    /\ UNCHANGED <<parked, stale>>
=============================================================================
