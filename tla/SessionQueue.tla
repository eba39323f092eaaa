---------------------------- MODULE SessionQueue ----------------------------
(***************************************************************************)
(* The per-session FIFO queue of hub/src/dispatch/session-queue.ts: one    *)
(* in-flight token and at most MaxWaiters waiting tokens for each agent    *)
(* session.  The class is synchronous (JavaScript runs each method to its  *)
(* end), so every method is one action here; the dispatch pipeline is its  *)
(* only caller and composes these actions with its own steps.              *)
(***************************************************************************)
EXTENDS Naturals, Sequences

CONSTANTS
    Session,     \* agent sessions
    Token,       \* dispatch tokens (run ids, annotation ids, ...)
    MaxWaiters,  \* REMO_DISPATCH_MAX_WAITERS
    None         \* the null of the source

ASSUME QueueAssumption ==
    /\ MaxWaiters \in Nat \ {0}
    /\ None \notin Token

VARIABLES
    slot,     \* slot[s]: the in-flight token of session s, or None
    waiters   \* waiters[s]: the waiting tokens, oldest first

QueueInit ==
    /\ slot = [s \in Session |-> None]
    /\ waiters = [s \in Session |-> << >>]

QueueTypeOK ==
    /\ slot \in [Session -> Token \cup {None}]
    /\ waiters \in [Session -> Seq(Token)]

(* The queue never grows past its room.                                    *)
QueueBounded == \A s \in Session : Len(waiters[s]) <= MaxWaiters

IsWaiting(s, t) == \E i \in DOMAIN waiters[s] : waiters[s][i] = t

(* Variant: the slot is taken even when it is not free.                    *)
ClaimAnyway(s, t) ==
    /\ slot' = [slot EXCEPT ![s] = t]
    /\ UNCHANGED waiters

(* enqueue() -> 'dispatched': the slot is free, the token takes it.        *)
Claim(s, t) ==
    /\ slot[s] = None
    /\ slot' = [slot EXCEPT ![s] = t]
    /\ UNCHANGED waiters

(* enqueue() -> 'queued' for a token already in flight or waiting.         *)
IsDuplicate(s, t) == slot[s] # None /\ (slot[s] = t \/ IsWaiting(s, t))

(* Variant: one waiter more than there is room for.                        *)
WaitOneMore(s, t) ==
    /\ slot[s] # None
    /\ ~IsDuplicate(s, t)
    /\ Len(waiters[s]) <= MaxWaiters
    /\ waiters' = [waiters EXCEPT ![s] = Append(@, t)]
    /\ UNCHANGED slot

(* enqueue() -> 'queued': the token joins the tail.                        *)
Wait(s, t) ==
    /\ slot[s] # None
    /\ ~IsDuplicate(s, t)
    /\ Len(waiters[s]) < MaxWaiters
    /\ waiters' = [waiters EXCEPT ![s] = Append(@, t)]
    /\ UNCHANGED slot

(* enqueue() -> 'dropped': no room behind the in-flight run.               *)
IsFull(s, t) ==
    /\ slot[s] # None
    /\ ~IsDuplicate(s, t)
    /\ Len(waiters[s]) >= MaxWaiters

(* releaseAndTakeNext(): free the slot for nobody and remove the first n   *)
(* waiters; the last one removed is the waiter handed to the caller.       *)
(* n = 0 only when nobody waits; n > 1 when the caller found the earlier   *)
(* ones without a context and asked again.                                 *)
ReleaseAndTake(s, n) ==
    /\ slot' = [slot EXCEPT ![s] = None]
    /\ waiters' = [waiters EXCEPT ![s] = SubSeq(@, n + 1, Len(@))]

(* abandon(): forget the slot and everyone who waits behind it.            *)
Abandon(s) ==
    /\ slot' = [slot EXCEPT ![s] = None]
    /\ waiters' = [waiters EXCEPT ![s] = << >>]
=============================================================================
