---------------------------- MODULE Attribution -----------------------------
(***************************************************************************)
(* usage.Attribute (server/internal/usage/usage.go): how the time between   *)
(* two reports is split over UTC hours and credited to the activity of the  *)
(* first one.  Instants are natural numbers of ticks, TicksPerSecond to the *)
(* second; an hour has HourLen seconds and is named by its number.          *)
(***************************************************************************)
EXTENDS Integers, Sequences

CONSTANTS TicksPerSecond,
          HourLen,         \* seconds in an hour (3600 in the code)
          MaxGap           \* USAGE_MAX_GAP in seconds

ASSUME AttributionAssumption ==
    /\ TicksPerSecond \in Nat \ {0}
    /\ HourLen \in Nat \ {0}
    /\ MaxGap \in Nat \ {0}

(* Truncate(time.Second) *)
Second(t) == t \div TicksPerSecond

Hour(s) == s \div HourLen

(* locked > idle > active *)
StateOf(a) == IF a.locked THEN "locked" ELSE IF a.idle THEN "idle" ELSE "active"

(* What an interval observed as a is filed under. *)
Key(a) == [state |-> StateOf(a), app |-> a.app]

(* Mutation: cut at one hour after cur, not at the next hour boundary. *)
CutFromCur(cur, to) == IF cur + HourLen > to THEN to ELSE cur + HourLen

(* Where the piece that begins at cur ends: the next hour, or the end.      *)
Cut(cur, to) == LET next == (Hour(cur) + 1) * HourLen
                IN IF next > to THEN to ELSE next

(* The loop: one piece per hour touched by the seconds from..to-1. *)
Pieces(from, to) ==
    LET split[cur \in from..to] ==
            IF cur = to THEN <<>>
            ELSE <<[hour |-> Hour(cur), seconds |-> Cut(cur, to) - cur]>> \o split[Cut(cur, to)]
    IN split[from]

Creditable(from, to) == to > from /\ to - from <= MaxGap

(* The buckets of the interval between instants from and to. *)
Attribute(a, from, to) ==
    LET f == Second(from)
        t == Second(to)
    IN IF ~Creditable(f, t) THEN <<>>
       ELSE [i \in DOMAIN Pieces(f, t) |-> [key |-> Key(a), hour |-> Pieces(f, t)[i].hour,
                                            seconds |-> Pieces(f, t)[i].seconds]]
=============================================================================
