------------------------------ MODULE TimerSet ------------------------------
(***************************************************************************)
(* mgr::on_time: one tick calls every element of timers_, while the calls  *)
(* register and unregister elements (a kcp::connector does in its          *)
(* constructor and destructor).  The loop of kcp::acceptor::on_time over   *)
(* convs_ has the same shape, and so have its sessions.                    *)
(*                                                                         *)
(* timers_ is an unordered_set: which element is behind which depends on   *)
(* addresses.  The model decides it when the iterator gets there, and      *)
(* keeps which elements are still ahead of the iterator.                   *)
(*                                                                         *)
(*   service   io_service: "new", "running" or "stopped"                   *)
(*   timers    timers_                                                     *)
(*   it        the iterator: an element, End, or Freed when the element it *)
(*             stood on was erased                                         *)
(*   ahead     the elements behind it in the table, still to come          *)
(*   looping   on_time is in its loop                                      *)
(*   called    how often each element that stayed was called in this tick  *)
(*   stayed    the elements registered since the tick began                *)
(*   rehashes  how often the table has been rehashed                       *)
(*   rehashed  it was in this tick                                         *)
(*   others    an element was erased in this tick by another's call        *)
(***************************************************************************)
EXTENDS Integers

CONSTANTS
  Element,     \* everything that may be registered
  End, Freed,
  MaxRehashes  \* bound

ASSUME TimerSetConstants ==
  /\ End # Freed /\ End \notin Element /\ Freed \notin Element
  /\ MaxRehashes \in Nat

VARIABLES service, timers, it, ahead, looping, called, stayed, rehashes,
          rehashed, others

tick == <<it, ahead, looping, called, stayed, rehashed, others>>
setVars == <<service, timers, tick, rehashes>>

-----------------------------------------------------------------------------

\* A call of an element that is no longer there, or through an iterator whose
\* element was erased.
Dangling == looping /\ it # End /\ it \notin timers

\* Where ++ may lead.
After == IF ahead = {} THEN {End} ELSE ahead

\* What erasing out and inserting in leaves of the loop, which is at i: an
\* inserted element may get a place on either side of it, and a rehash gives
\* every element a new place.  Nothing comes after the end.
Update(i, rest, out, in, rehash) ==
  /\ timers' = (timers \ out) \cup in
  /\ it' = IF i \in out THEN Freed ELSE i
  /\ ahead' \in CASE i = End -> {{}}
                 [] i # End /\ rehash -> SUBSET (timers' \ {i})
                 [] OTHER -> {(rest \ out) \cup new : new \in SUBSET (in \ {i})}
  /\ rehash => rehashes < MaxRehashes
  /\ rehashes' = IF rehash THEN rehashes + 1 ELSE rehashes

-----------------------------------------------------------------------------

\* run(): the repeating timer of 20 ms starts.
run == /\ service = "new" /\ service' = "running"
       /\ UNCHANGED <<timers, tick, rehashes>>

\* stop(), from the signal handler at any moment: the handler in progress ends.
stop == /\ service = "running" /\ service' = "stopped"
        /\ UNCHANGED <<timers, tick, rehashes>>

\* The timer calls on_time.
begin ==
  /\ service = "running" /\ ~looping
  /\ looping' = TRUE
  /\ it' \in IF timers = {} THEN {End} ELSE timers
  /\ ahead' = timers \ {it'}
  /\ called' = [t \in Element |-> 0]
  /\ stayed' = timers
  /\ rehashed' = FALSE /\ others' = FALSE
  /\ UNCHANGED <<service, timers, rehashes>>

\* What is noted of a call.
Note(out, rehash) ==
  /\ called' = [called EXCEPT ![it] = IF it \in stayed THEN @ + 1 ELSE @]
  /\ stayed' = stayed \ out
  /\ rehashed' = (rehashed \/ rehash)
  /\ others' = (others \/ out \ {it} # {})
  /\ UNCHANGED <<service, looping>>

\* Mutants: the iterator moves on after the call; it may not move on.
call_Late(out, in, rehash) ==
  /\ looping /\ it # End /\ ~Dangling
  /\ \/ it \in out /\ Update(it, ahead, out, in, rehash)
     \/ it \notin out /\ \E i \in After : Update(i, ahead \ {i}, out, in, rehash)
  /\ Note(out, rehash)
call_Again(out, in, rehash) ==
  /\ looping /\ it # End /\ ~Dangling /\ called[it] < 2
  /\ it \notin out
  /\ \E i \in After \cup {it} : Update(i, ahead \ {i}, out, in, rehash)
  /\ Note(out, rehash)

\* One turn of the loop: the iterator moves on, then the element it stood on
\* is called, which erases out and inserts in.
call(out, in, rehash) ==
  /\ looping /\ it # End /\ ~Dangling
  /\ \E i \in After : Update(i, ahead \ {i}, out, in, rehash)
  /\ Note(out, rehash)

end ==
  /\ looping /\ it = End
  /\ looping' = FALSE
  /\ UNCHANGED <<service, timers, it, ahead, called, stayed, rehashes, rehashed, others>>

\* Registered and unregistered by other handlers than the tick.
add(t) ==
  /\ ~looping /\ t \notin timers
  /\ timers' = timers \cup {t}
  /\ UNCHANGED <<service, tick, rehashes>>
remove(t) ==
  /\ ~looping /\ t \in timers
  /\ timers' = timers \ {t}
  /\ UNCHANGED <<service, tick, rehashes>>

-----------------------------------------------------------------------------

SetInit ==
  /\ service = "new" /\ timers = {}
  /\ it = End /\ ahead = {} /\ looping = FALSE
  /\ called = [t \in Element |-> 0] /\ stayed = {}
  /\ rehashes = 0 /\ rehashed = FALSE /\ others = FALSE

SetNext ==
  \/ run \/ stop \/ begin \/ end
  \/ \E out \in SUBSET timers, in \in SUBSET Element, rehash \in BOOLEAN :
       /\ in \cap (timers \ out) = {}
       /\ rehash => in # {}
       /\ call(out, in, rehash)
  \/ \E t \in Element : add(t) \/ remove(t)

SetSpec == SetInit /\ [][SetNext]_setVars

-----------------------------------------------------------------------------

\* The types the proofs rest on.
SetTypeOK ==
  /\ service \in {"new", "running", "stopped"}
  /\ timers \subseteq Element
  /\ it \in Element \cup {End, Freed}
  /\ ahead \subseteq Element
  /\ looping \in BOOLEAN
  /\ called \in [Element -> Nat]
  /\ stayed \subseteq Element
  /\ rehashes \in 0..MaxRehashes
  /\ rehashed \in BOOLEAN /\ others \in BOOLEAN

\* As long as a call erases at most its own element, as the destructor of a
\* connector in its own on_time does, the loop never uses an element that is
\* gone, also when elements are inserted and the table is rehashed.
ErasesSelfSafely == ~others => ~Dangling

\* In a tick without rehash no element that stays is called twice, and when
\* the tick ends each has been called.  (A rehash may leave elements out or
\* repeat them.)
EachOnce ==
  looping /\ ~rehashed =>
    \A t \in stayed : called[t] <= 1 /\ (it = End => called[t] = 1)
=============================================================================
