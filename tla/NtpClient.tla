------------------------------ MODULE NtpClient ------------------------------
(***************************************************************************)
(* 20181212ntp/ntp.c: one SNTP request, the answer or what comes instead   *)
(* of it, and the clock that is set from it.  Time is counted in ticks,    *)
(* Second of them to a second; the fractions of the packets and of the     *)
(* clock are exact here.  The network may lose the request or the answer,  *)
(* delay both, or report that nobody listens.                              *)
(***************************************************************************)
EXTENDS Integers

CONSTANTS
    Second,     \* ticks of a second
    Era,        \* seconds that the field of a packet can hold (2^32), and values of int
    Jan1970,    \* JAN_1970, less than Era
    TIMEOUT,    \* seconds that select waits
    Starts,     \* the times at which the program may be started
    Clocks,     \* what the clock of the machine may show then
    MaxTicks    \* bound: ticks that pass

VARIABLES
    now,        \* the true time, which the server has
    ticks,      \* ticks so far (bound)
    clock,      \* the clock of the machine
    pc,         \* "start", "select", "recv", "adjust", "set" or "done"
    buf,        \* the three time stamps of the packet in buf
    net,        \* where the packet is: "none", "request", "answer", "refused"
    sent,       \* the true times of the way: request sent, received, answered
    offset,     \* twice the offset, in ticks
    tv,         \* what will be set
    outcome     \* "none", "answered", "refused" or "timeout"

vars == <<now, ticks, clock, pc, buf, net, sent, offset, tv, outcome>>

Seconds(t) == t \div Second

\* A time stamp of a packet: the seconds have 32 bits.
Stamp(t) == [sec |-> (Seconds(t) + Jan1970) % Era, frac |-> t % Second]
Zero == [sec |-> 0, frac |-> 0]

\* Fault: the difference is not taken modulo the width of the field.
FromStampSigned(s) == (s.sec - Jan1970) * Second + s.frac

\* NTP_LFIXED2DOUBLE: an unsigned subtraction.
FromStamp(s) == ((s.sec - Jan1970) % Era) * Second + s.frac

\* A double without its fraction: towards zero.
Truncate(x, unit) == IF x >= 0 THEN x \div unit ELSE -((-x) \div unit)

get_rrt(ntp, recvtv) ==
    (recvtv - FromStamp(ntp.orits)) - (FromStamp(ntp.transts) - FromStamp(ntp.recvts))

\* Twice what the code returns.
get_offset(ntp, recvtv) ==
    (FromStamp(ntp.recvts) - FromStamp(ntp.orits)) + (FromStamp(ntp.transts) - recvtv)

Init ==
    /\ now \in Starts
    /\ clock \in Clocks
    /\ ticks = 0 /\ pc = "start"
    /\ buf = [orits |-> Zero, recvts |-> Zero, transts |-> Zero]
    /\ net = "none" /\ sent = [out |-> now, there |-> now, back |-> now, here |-> now]
    /\ offset = 0 /\ tv = 0 /\ outcome = "none"

-------------------------------------------------------------------------------
(* Time and the network.                                                   *)

Tick ==
    /\ ticks < MaxTicks /\ pc # "done"
    /\ now' = now + 1 /\ clock' = clock + 1 /\ ticks' = ticks + 1
    /\ UNCHANGED <<pc, buf, net, sent, offset, tv, outcome>>

\* The server answers: it returns the time of the client, and adds the two of its own.
ServerReceives ==
    /\ pc = "select" /\ net = "request"
    /\ net' = "served" /\ sent' = [sent EXCEPT !.there = now]
    /\ UNCHANGED <<now, ticks, clock, pc, buf, offset, tv, outcome>>
ServerAnswers ==
    /\ pc = "select" /\ net = "served"
    /\ net' = "answer" /\ sent' = [sent EXCEPT !.back = now]
    /\ UNCHANGED <<now, ticks, clock, pc, buf, offset, tv, outcome>>

\* Nobody listens at the port, and the network says so.
Refuse ==
    /\ pc = "select" /\ net = "request"
    /\ net' = "refused"
    /\ UNCHANGED <<now, ticks, clock, pc, buf, sent, offset, tv, outcome>>

Lose ==
    /\ pc = "select" /\ net \in {"request", "answer", "refused"}
    /\ net' = "none"
    /\ UNCHANGED <<now, ticks, clock, pc, buf, sent, offset, tv, outcome>>

-------------------------------------------------------------------------------
(* The client.                                                             *)

\* get_ntp_packet and send.
Request ==
    /\ pc = "start"
    /\ buf' = [buf EXCEPT !.transts = Stamp(clock)]
    /\ net' = "request" /\ sent' = [sent EXCEPT !.out = now]
    /\ pc' = "select"
    /\ UNCHANGED <<now, ticks, clock, offset, tv, outcome>>

\* select: an answer, or an error.  It looks once more when the time is over.
Selected ==
    /\ pc = "select" /\ net \in {"answer", "refused"}
    /\ pc' = "recv"
    /\ UNCHANGED <<now, ticks, clock, buf, net, sent, offset, tv, outcome>>

SelectTimesOut ==
    /\ pc = "select" /\ now - sent.out >= TIMEOUT * Second
    /\ net \notin {"answer", "refused"}
    /\ pc' = "done" /\ outcome' = "timeout"
    /\ UNCHANGED <<now, ticks, clock, buf, net, sent, offset, tv>>

\* What recv leaves in buf.  nbytes is unsigned: an error is not noticed, and buf
\* still holds the request.
Received ==
    IF net = "answer"
    THEN [orits |-> buf.transts, recvts |-> Stamp(sent.there), transts |-> Stamp(sent.back)]
    ELSE buf

\* recv, gettimeofday and get_offset.
Receive ==
    /\ pc = "recv"
    /\ buf' = Received
    /\ offset' = get_offset(Received, clock)
    /\ sent' = [sent EXCEPT !.here = now]
    /\ outcome' = IF net = "answer" THEN "answered" ELSE "refused"
    /\ net' = "none" /\ pc' = "adjust"
    /\ UNCHANGED <<now, ticks, clock, tv>>

IntRange == -(Era \div 2) .. (Era \div 2) - 1

\* tv_sec += (int) offset; tv_usec += the fraction, which the conversion of the sum to a
\* whole number of microseconds takes away again.  The conversion to int is undefined
\* when the offset is no int: then any int is added, and as many microseconds as the
\* offset has seconds more, of which settimeofday takes less than a second.
Adjusted(t, twice) ==
    LET whole == Truncate(twice, 2 * Second) IN
    IF whole \in IntRange THEN {t + Second * whole}
    ELSE {Second * (Seconds(t) + i) + f : i \in IntRange, f \in 0 .. Second - 1}

Adjust ==
    /\ pc = "adjust"
    /\ \E time \in Adjusted(clock, offset) : tv' = [read |-> clock, set |-> time]
    /\ pc' = "set"
    /\ UNCHANGED <<now, ticks, clock, buf, net, sent, offset, outcome>>

\* settimeofday, which needs the privilege and a time since 1970.
SetClock ==
    /\ pc = "set"
    /\ \/ tv.set >= 0 /\ clock' = tv.set
       \/ UNCHANGED clock
    /\ pc' = "done"
    /\ UNCHANGED <<now, ticks, buf, net, sent, offset, tv, outcome>>

Next ==
    \/ Tick \/ ServerReceives \/ ServerAnswers \/ Refuse \/ Lose
    \/ Request \/ Selected \/ SelectTimesOut \/ Receive \/ Adjust \/ SetClock

-------------------------------------------------------------------------------
TypeOK ==
    /\ now \in Nat /\ ticks \in 0 .. MaxTicks /\ clock \in Int /\ offset \in Int
    /\ pc \in {"start", "select", "recv", "adjust", "set", "done"}
    /\ net \in {"none", "request", "served", "answer", "refused"}
    /\ outcome \in {"none", "answered", "refused", "timeout"}
    /\ \A f \in DOMAIN buf : buf[f].sec \in 0 .. Era - 1 /\ buf[f].frac \in 0 .. Second - 1

Abs(x) == IF x < 0 THEN -x ELSE x

\* Every time of the exchange can be told from the 32 bits.
InEra == sent.here < Era * Second /\ clock < Era * Second

\* How much longer the way out took than the way back.
Asymmetry == (sent.there - sent.out) - (sent.here - sent.back)

\* The clock is wrong by less than an int can say (68 years).
NearEnough == 2 * Abs(clock - now) + Abs(Asymmetry) < Era * Second

(* After a real answer the time that will be set is right up to less than  *)
(* a second (the fraction that is lost), half of the difference of the two *)
(* ways, and the time between gettimeofday and settimeofday, as long as    *)
(* the error of the clock fits into an int; the round trip is what it was. *)
OffsetIsRight ==
    /\ pc = "set" /\ outcome = "answered" /\ InEra /\ NearEnough =>
           2 * Abs((tv.read - clock) + now - tv.set) < 2 * Second + Abs(Asymmetry)
    /\ pc = "adjust" /\ outcome = "answered" /\ InEra /\ sent.here = now =>
           get_rrt(buf, clock) = (sent.there - sent.out) + (sent.here - sent.back)

(* Without an answer the clock is only set after a refused request, when   *)
(* recv's error is taken for an answer: it goes back by half of the time   *)
(* that went by, in whole seconds.                                         *)
UnansweredKeepsClock ==
    pc = "set" /\ outcome # "answered" /\ InEra =>
        /\ outcome = "refused"
        /\ tv.set = tv.read - Second * ((sent.here - sent.out) \div (2 * Second))
=============================================================================
