------------------------------- MODULE Timer -------------------------------
(***************************************************************************)
(* asio::reactor::timer::base, a one-shot or repeating timer on top of an  *)
(* asio timer, in the single threaded io_service.  mgr drives everything   *)
(* that polls (KCP sessions, connectors) with one of them.                 *)
(*                                                                         *)
(*   waits   the async_wait operations pending on timer_, each with the    *)
(*           repeat flag its handler captured                              *)
(*   queue   handlers ready to run; ok: expired, not aborted               *)
(*   want    what the last call asked for: "none", "once" or "repeat"      *)
(*   asked   delay was called and neither on_time nor cancel since, except *)
(*           for the on_time that called it                                *)
(*   turn    changes whenever on_time runs                                 *)
(*   clash   that last call came while an expired wait was queued already, *)
(*           or from on_time of a repeating wait                           *)
(*                                                                         *)
(* want, asked, turn and clash are history variables.  Time is             *)
(* abstract: a pending wait may expire at any moment.                      *)
(***************************************************************************)
EXTENDS Naturals, Sequences

CONSTANTS
  MaxCalls     \* bound: calls of delay and cancel from outside on_time

ASSUME TimerConstants == MaxCalls \in Nat

VARIABLES waits, queue, want, asked, turn, clash, calls

vars == <<waits, queue, want, asked, turn, clash, calls>>

Handler(repeat, ok) == [repeat |-> repeat, ok |-> ok]
Mode(repeat) == IF repeat THEN "repeat" ELSE "once"
Expired(q) == \E i \in DOMAIN q : q[i].ok

\* The asio timer, with its handlers in the io_service's queue.
Timers == [waits : Seq(BOOLEAN), queue : Seq([repeat : BOOLEAN, ok : BOOLEAN])]

\* timer_.cancel(), and what expires_from_now does first: pending waits are
\* posted with operation_aborted, expired ones are not affected.
timer_cancel(t) ==
  [waits |-> <<>>,
   queue |-> t.queue \o [i \in DOMAIN t.waits |-> Handler(t.waits[i], FALSE)]]

async_wait(t, repeat) == [t EXCEPT !.waits = Append(@, repeat)]

\* Mutant: do_time without its cancel.
do_time_NoCancel(t, repeat) == async_wait(t, repeat)

do_time(t, repeat) == async_wait(timer_cancel(t), repeat)

\* Mutant: only a repeating timer starts to wait.
delay_OnlyRepeats(t, repeat) ==
  IF repeat THEN do_time(timer_cancel(t), repeat) ELSE timer_cancel(t)

delay(t, repeat) == do_time(timer_cancel(t), repeat)

\* Mutant: the pending wait is left alone.
cancel_Nothing(t) == t

cancel(t) == timer_cancel(t)

\* What the application does next to the timer.
Requests == {"nothing", "once", "repeat", "none"}
Request(t, r) ==
  CASE r = "nothing" -> t
    [] r = "none"    -> cancel(t)
    [] OTHER         -> delay(t, r = "repeat")

\* Mutant: it never waits again.
on_expiry_Once(t, repeat, r) == Request(timer_cancel(t), r)

\* The handler of an expired wait; r is what on_time does.
on_expiry(t, repeat, r) ==
  LET u == Request(timer_cancel(t), r)
  IN  IF repeat THEN do_time(u, repeat) ELSE u

-----------------------------------------------------------------------------

timer_ == [waits |-> waits, queue |-> queue]
Becomes(t) == waits' = t.waits /\ queue' = t.queue

\* delay or cancel, called from another handler.
CallFromOutside(r) ==
  /\ calls < MaxCalls /\ calls' = calls + 1
  /\ Becomes(Request(timer_, r))
  /\ want' = r
  /\ asked' = (r # "none")
  /\ clash' = Expired(queue)
  /\ UNCHANGED turn

\* The expiry time has come: the reactor queues the handlers.
Expire ==
  /\ waits # <<>>
  /\ waits' = <<>>
  /\ queue' = queue \o [i \in DOMAIN waits |-> Handler(waits[i], TRUE)]
  /\ UNCHANGED <<want, asked, turn, clash, calls>>

\* An aborted handler returns at once.
RunAborted ==
  /\ queue # <<>> /\ ~Head(queue).ok
  /\ queue' = Tail(queue)
  /\ UNCHANGED <<waits, want, asked, turn, clash, calls>>

\* An expired one restarts the timer, calls on_time and waits again.
RunExpired(r) ==
  /\ queue # <<>> /\ Head(queue).ok
  /\ LET h == Head(queue)
     IN  /\ Becomes(on_expiry([timer_ EXCEPT !.queue = Tail(queue)], h.repeat, r))
         /\ IF r = "nothing"
            THEN /\ want' = IF want = "once" THEN "none" ELSE want
                 /\ asked' = FALSE
                 /\ UNCHANGED clash
            ELSE /\ want' = r
                 /\ asked' = (r # "none")
                 /\ clash' = (h.repeat \/ Expired(Tail(queue)))
  /\ turn' = ~turn
  /\ UNCHANGED calls

\* The timer as its owner first arms it, mgr::run with repeat.
Init ==
  /\ \E repeat \in BOOLEAN :
       /\ waits = <<repeat>>
       /\ want = Mode(repeat)
  /\ queue = <<>> /\ asked = TRUE /\ turn = FALSE /\ clash = FALSE /\ calls = 0

Next ==
  \/ \E r \in Requests \ {"nothing"} : CallFromOutside(r)
  \/ Expire \/ RunAborted
  \/ \E r \in Requests : RunExpired(r)

\* The clock runs and io_service::run() runs the queued handlers.
Fairness ==
  /\ WF_vars(Expire)
  /\ WF_vars(RunAborted \/ \E r \in Requests : RunExpired(r))

Spec == Init /\ [][Next]_vars
FairSpec == Spec /\ Fairness

-----------------------------------------------------------------------------

TypeOK ==
  /\ timer_ \in Timers
  /\ want \in {"none", "once", "repeat"}
  /\ asked \in BOOLEAN /\ turn \in BOOLEAN /\ clash \in BOOLEAN
  /\ calls \in 0..MaxCalls

\* However delay, cancel and expiries follow each other, also from within
\* on_time, at most one wait is pending: a timer never runs at twice its rate.
OneWait == Len(waits) <= 1

\* A repeating timer keeps going: nobody asked otherwise, and no expired wait
\* was queued when it was started, so there is a wait to come or one expired.
KeepsTicking ==
  want = "repeat" /\ ~clash =>
    \/ waits = <<TRUE>>
    \/ \E i \in DOMAIN queue : queue[i] = Handler(TRUE, TRUE)

\* After a cancel, or once a one-shot timer has fired, on_time does not run
\* again, unless the cancel came too late (see clash).
CancelStops ==
  want = "none" /\ ~clash => waits = <<>> /\ ~Expired(queue)

\* delay() is followed by on_time, even if it clashes with an expired wait,
\* unless the timer is cancelled.
Served == \A x \in BOOLEAN : asked /\ turn = x ~> ~asked \/ turn # x
=============================================================================
