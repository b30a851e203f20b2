---------------------------- MODULE AsyncAuthority ----------------------------
(***************************************************************************)
(* revoke_capability_and_commit_async against a log behind a network       *)
(* (AsyncTransparencyLog): the tree is changed before the first await, so  *)
(* a call that is dropped, times out or fails leaves it ahead of every     *)
(* state the caller holds, while its request may be lost, applied late, or *)
(* applied twice by a client that retries.                                 *)
(*                                                                         *)
(* After such a call the caller of this module does what the usage guide   *)
(* does at start-up: it builds a state from the tree's roots.  It asks the *)
(* log for no epoch lower than one it has asked for.                       *)
(***************************************************************************)
EXTENDS Authority

VARIABLES
    inflight,   \* states on their way to the log service
    awaiting,   \* the state the pending call waits for, if one does
    asked       \* the highest epoch the caller has sent to the log

asyncVars == <<entries, commits, leaf_hashes, revoked_stamps, certs, issued, current,
               inflight, awaiting, asked>>

callVars == <<inflight, awaiting>>

AsyncInit ==
    /\ Init
    /\ inflight = {}
    /\ awaiting = {}
    /\ asked = 0

revoke_capability_and_commit_async(cap, base_state, revoke_epoch) ==
    LET state == RevokedState(base_state, revoke_epoch, leaf_hashes, revoked_stamps')
    IN  /\ awaiting = {}
        /\ revoke_epoch >= asked
        /\ TreeRevokes(cap, base_state, revoke_epoch)
        /\ inflight' = inflight \cup {state}
        /\ awaiting' = {state}
        /\ asked' = revoke_epoch
        /\ UNCHANGED <<entries, commits, current>>

(***************************************************************************)
(* The service applies a request, once or with a copy still to come.  The  *)
(* answer reaches the call if that is still pending and the answer is not  *)
(* lost; a refusal leaves the caller with the state it had.                *)
(***************************************************************************)
Answered(state) == state \in awaiting /\ awaiting' = {}

Applied(state) ==
    /\ commit_state(state)
    /\ \/ Answered(state) /\ current' = CommitOf(entries', state).state
       \/ UNCHANGED <<awaiting, current>>

Refused(state) ==
    /\ ~Accepts(entries, state)
    /\ UNCHANGED <<entries, commits, current>>
    /\ Answered(state) \/ UNCHANGED awaiting

deliver(state) ==
    /\ state \in inflight
    /\ inflight' \in {inflight, inflight \ {state}}
    /\ Applied(state) \/ Refused(state)
    /\ UNCHANGED <<leaf_hashes, revoked_stamps, certs, issued, asked>>

lose(state) ==
    /\ state \in inflight
    /\ inflight' = inflight \ {state}
    /\ UNCHANGED <<entries, commits, leaf_hashes, revoked_stamps, certs, issued, current,
                   awaiting, asked>>

(* The future is dropped: a timeout, or the task was cancelled. *)
drop ==
    /\ awaiting # {}
    /\ awaiting' = {}
    /\ UNCHANGED <<entries, commits, leaf_hashes, revoked_stamps, certs, issued, current,
                   inflight, asked>>

(***************************************************************************)
(* Between calls the caller goes on as in Authority, rotating only a state *)
(* that agrees with its tree.                                              *)
(***************************************************************************)
BetweenCalls ==
    /\ awaiting = {}
    /\ \/ certify_key(current.epoch) /\ UNCHANGED asked
       \/ Issues({current}) /\ UNCHANGED asked
       \/ \E e \in Later(current) :
             /\ TreeMatches(current) /\ e >= asked
             /\ rotate_epoch_and_commit(current, e, PrevHash(current))
             /\ asked' = e
       \/ \E e \in Epoch : e >= asked /\ build_state(e) /\ asked' = e
       \/ commit_held(current) /\ UNCHANGED asked
    /\ UNCHANGED callVars

AsyncNext ==
    \/ \E cap \in Capability, e \in Epoch : revoke_capability_and_commit_async(cap, current, e)
    \/ \E state \in inflight : deliver(state) \/ lose(state)
    \/ drop
    \/ BetweenCalls

AsyncSpec == AsyncInit /\ [][AsyncNext]_asyncVars

------------------------------------------------------------------------------
(***************************************************************************)
(* A request on its way, however late it arrives, describes a moment of    *)
(* the tree that the present tree contains, and no epoch above those asked *)
(* for is in the log.                                                      *)
(***************************************************************************)
LateRequestsContained ==
    /\ \A state \in inflight : /\ FromTree(state, leaf_hashes, revoked_stamps)
                               /\ state.epoch <= asked
    /\ \A i \in DOMAIN entries : entries[i].epoch <= asked
===============================================================================
