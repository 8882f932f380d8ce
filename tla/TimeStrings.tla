----------------------------- MODULE TimeStrings ------------------------------
(***************************************************************************)
(* Times written and read: dup_time.py.                                    *)
(*                                                                         *)
(* A time is a number of seconds since the epoch.  A string is a record    *)
(* of what it is made of: the date and the time of day are one number, the *)
(* seconds a clock set to `wall` shows, and the zone is what is written    *)
(* behind it.  A zone z has the two offsets of module time, in seconds     *)
(* west of UTC: z.timezone, and z.altzone while summer time applies.  What *)
(* cannot be read gives <<>>, a time t gives <<t>>.                        *)
(***************************************************************************)
EXTENDS Integers, SequencesExt

Hour == 3600
Day == 24 * Hour

None == <<>>

Utc(wall) == [form |-> "utc", wall |-> wall]              \* 20010901T120000Z
W3(wall, tzd, sep) == [form |-> "w3", wall |-> wall, tzd |-> tzd, sep |-> sep]
                                                  \* 2001-09-01T12:00:00-08:00
Now == [form |-> "now"]
Number(n) == [form |-> "integer", value |-> n]
Interval(parts) == [form |-> "interval", parts |-> parts]  \* 2h30m: <<2, "h">>...
Date(day) == [form |-> "date", day |-> day]       \* 2001-04-23, 4/23/2001, ...

NoZone == [is |-> "nothing"]
Zulu == [is |-> "Z"]
Offset(sign, hours, minutes) ==
  [is |-> "offset", sign |-> sign, hours |-> hours, minutes |-> minutes]

\* A mutation of GetTzd: the hours and minutes of a clock.
GetTzdClock(z, dst) ==
  LET west == IF dst THEN z.altzone ELSE z.timezone
      apart == (IF west < 0 THEN -west ELSE west) \div 60
  IN  IF apart = 0 THEN Zulu
      ELSE Offset(IF west < 0 THEN "+" ELSE "-", apart \div 60, apart % 60)

(***************************************************************************)
(* gettzd: divmod rounds down, so that the hours and minutes written for a *)
(* zone west of UTC are not those of a clock: -03:30 becomes -04:30.       *)
(***************************************************************************)
GetTzd(z, dst) ==
  LET offset == (-1 * (IF dst THEN z.altzone ELSE z.timezone)) \div 60
      hours  == offset \div 60
  IN  IF offset = 0 THEN Zulu
      ELSE Offset(IF offset > 0 THEN "+" ELSE "-",
                  IF hours < 0 THEN -hours ELSE hours, offset % 60)

(***************************************************************************)
(* tzdtoseconds: the sign is that of the hours only, and -00 has none.     *)
(***************************************************************************)
TzdToSeconds(tzd) ==
  IF tzd.is = "Z" THEN 0
  ELSE -60 * (60 * (IF tzd.sign = "-" THEN -tzd.hours ELSE tzd.hours) + tzd.minutes)

(***************************************************************************)
(* timetostring, in the zone z, with dst saying whether summer time        *)
(* applies at t there.                                                     *)
(***************************************************************************)
TimeToString(t, z, dst, old, sep) ==
  IF old THEN W3(t - (IF dst THEN z.altzone ELSE z.timezone), GetTzd(z, dst), sep)
  ELSE Utc(t)

\* time.mktime of a tuple whose summer time flag is 0: standard time is meant.
MkTime(wall, z) == wall + z.timezone

(***************************************************************************)
(* stringtotime: a string without a zone, or with another separator than   *)
(* the run's, is not a time.                                               *)
(***************************************************************************)
StringToTime(s, z, sep) ==
  CASE s.form = "utc" -> <<s.wall>>
    [] s.form = "w3" /\ s.sep = sep /\ s.tzd # NoZone ->
         <<MkTime(s.wall, z) - z.timezone + TzdToSeconds(s.tzd)>>
    [] OTHER -> None

\* The result, if it is one and not the epoch itself, which counts as none.
NonZero(r) == IF r = <<0>> THEN None ELSE r

UnitSeconds == [s |-> 1, m |-> 60, h |-> Hour, D |-> Day, W |-> 7 * Day,
                M |-> 30 * Day, Y |-> 365 * Day]

\* intstringtoseconds
IntervalSeconds(parts) ==
  IF parts = <<>> \/ \E i \in DOMAIN parts : parts[i][2] \notin DOMAIN UnitSeconds
  THEN None
  ELSE <<FoldLeft(LAMBDA total, p : total + p[1] * UnitSeconds[p[2]], 0, parts)>>

(***************************************************************************)
(* genstrtotime, tried in this order: now, a number of seconds, a w3 time, *)
(* a w3 time to which the run's own zone is added, an interval back from   *)
(* now, and a date, of which midnight, standard time, is meant.            *)
(***************************************************************************)
GenStrToTime(s, now, z, sep) ==
  LET here   == GetTzd(z, FALSE)
      zoned  == IF s.form = "w3" /\ s.tzd = NoZone THEN [s EXCEPT !.tzd = here] ELSE s
      length == IF s.form = "interval" THEN IntervalSeconds(s.parts) ELSE None
  IN  CASE s.form = "now"     -> <<now>>
        [] s.form = "integer" -> <<s.value>>
        [] s.form \in {"utc", "w3"} ->
             IF NonZero(StringToTime(s, z, sep)) # None THEN StringToTime(s, z, sep)
             ELSE NonZero(StringToTime(zoned, z, sep))
        [] s.form = "interval" ->
             IF length = None THEN None ELSE <<now - length[1]>>
        [] s.form = "date" ->
             NonZero(StringToTime(W3(s.day * Day, here, ":"), z, sep))

-----------------------------------------------------------------------------
(***************************************************************************)
(* What the string of a time says, by the standard it is written to: the   *)
(* sign of a zone is that of its minutes too.                              *)
(***************************************************************************)
Meaning(s) ==
  IF s.form = "utc" THEN s.wall
  ELSE LET ahead == 60 * (60 * s.tzd.hours + s.tzd.minutes)
       IN  CASE s.tzd.is = "Z" -> s.wall
             [] s.tzd.sign = "+" -> s.wall - ahead
             [] s.tzd.sign = "-" -> s.wall + ahead
=============================================================================
