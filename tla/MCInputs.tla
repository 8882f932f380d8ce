------------------------------- MODULE MCInputs -------------------------------
(***************************************************************************)
(* What the program reads before it does anything: the names of the files  *)
(* it finds, the times it is given and its command line.  Each behaviour   *)
(* takes one input and answers it.                                         *)
(***************************************************************************)
EXTENDS FileNames, CommandLine, RestoreTimes

VARIABLES input,        \* what is read
          answer        \* what is made of it

-----------------------------------------------------------------------------
(***************************************************************************)
(* Times, in zones on both sides of UTC and with halves of hours, written  *)
(* there, in either season, and read in another.                           *)
(***************************************************************************)
Zone(std, summer) == [timezone |-> std, altzone |-> summer]
Greenwich == Zone(0, -Hour)
NewYork == Zone(5 * Hour, 4 * Hour)
India == Zone(-19800, -19800)
Newfoundland == Zone(12600, 9000)
Zones == {Greenwich, NewYork, India, Newfoundland, Zone(1800, -1800)}

CurTime == 1000000000

\* What duplicity writes for a time and reads back, perhaps elsewhere.
OwnTimes ==
  [about : {"own time"}, t : {1, 36, CurTime}, zone : Zones, dst : BOOLEAN,
   old : BOOLEAN, sep : {":", "_"}, elsewhere : Zones]

\* What a user may give.
UserStrings ==
  {W3(CurTime, tzd, ":") : tzd \in {Zulu, Offset("+", 5, 30), Offset("-", 8, 0),
                                    Offset("+", 0, 45)}}
  \cup {Utc(CurTime)}

UserTimes ==
  [about : {"user time"}, s : UserStrings, zone : Zones]
  \cup [about : {"user time"}, zone : Zones,
        s : {W3(CurTime, NoZone, ":"), Now, Number(7), Date(400),
             Interval(<<<<2, "h">>, <<30, "m">>>>), Interval(<<<<1, "Y">>, <<3, "x">>>>)}]

\* What it means: a zone left out and a date are local, in standard time.
UserMeans(i) ==
  CASE i.s.form = "now" -> <<CurTime>>
    [] i.s.form = "integer" -> <<i.s.value>>
    [] i.s.form = "date" -> <<i.s.day * Day + i.zone.timezone>>
    [] i.s.form = "w3" /\ i.s.tzd = NoZone -> <<i.s.wall + i.zone.timezone>>
    [] i.s.form = "interval" ->
         IF \E k \in DOMAIN i.s.parts : i.s.parts[k][2] = "x" THEN None
         ELSE <<CurTime - 9000>>
    [] OTHER -> <<Meaning(i.s)>>

-----------------------------------------------------------------------------
(***************************************************************************)
(* Names: every kind of file, written and read with several options.       *)
(***************************************************************************)
Conf(short, old, prefix, archive, zone) ==
  [short |-> short, old |-> old, sep |-> ":", prefix |-> prefix, archive |-> archive,
   manifest |-> <<"m">>, signature |-> <<>>, zone |-> zone, dst |-> FALSE]

Confs ==
  {Conf(TRUE, FALSE, <<>>, <<>>, Greenwich), Conf(FALSE, FALSE, <<>>, <<>>, Greenwich),
   Conf(FALSE, TRUE, <<>>, <<>>, Newfoundland), Conf(FALSE, TRUE, <<>>, <<>>, India),
   Conf(FALSE, FALSE, <<"a">>, <<"b">>, NewYork), Conf(FALSE, FALSE, <<"a", "b">>, <<>>, India),
   Conf(TRUE, FALSE, <<"a">>, <<"b">>, NewYork)}

Descr(type, part, volume, start, time, partial, suffix) ==
  [type |-> type, part |-> part, volume |-> volume, start |-> start, time |-> time,
   partial |-> partial, compressed |-> suffix \in {"gz", "both"}, encrypted |-> suffix \in {"gpg", "both"}]

Times == {<<1, 35>>, <<35, 36>>, <<1295, 1296>>, <<46655, CurTime>>}
\* Encryption and compression are both asked for by default.
Endings == {"", "gz", "gpg", "both"}

Descriptions ==
  {Descr("full", "volume", n, 0, t[2], FALSE, x) :
     n \in {1, 35, 36, 1296}, t \in Times, x \in Endings}
  \cup {Descr("inc", "volume", n, t[1], t[2], FALSE, x) :
     n \in {1, 36}, t \in Times, x \in Endings}
  \cup {Descr("full", "manifest", 0, 0, t[2], p, x) :
     t \in Times, p \in BOOLEAN, x \in Endings}
  \cup {Descr("inc", "manifest", 0, t[1], t[2], p, x) :
     t \in Times, p \in BOOLEAN, x \in Endings}
  \cup {Descr("full-sig", "signature", 0, 0, t[2], p, x) :
     t \in Times, p \in BOOLEAN, x \in Endings}
  \cup {Descr("new-sig", "signature", 0, t[1], t[2], p, x) :
     t \in Times, p \in BOOLEAN, x \in Endings}

Names == [about : {"name"}, d : Descriptions, writer : Confs, reader : Confs]

\* The letters a run puts in front of the names of such a file.
Letters(d, c) ==
  c.prefix \o CASE d.part = "volume" -> c.archive
                [] d.part = "manifest" -> c.manifest
                [] d.part = "signature" -> c.signature

-----------------------------------------------------------------------------
(***************************************************************************)
(* Command lines of up to three arguments.                                 *)
(***************************************************************************)
Store == Url("ftp", TRUE, TRUE)

Arguments ==
  {Text({c}) : c \in Commands}
  \cup {Text({}), Text({"cleanup", "collection-status"}), Time(Number(5)),
        Time(Interval(<<<<3, "x">>>>)), Count(1), Count(0), Store,
        Url("file", FALSE, FALSE), Url("ftp", FALSE, TRUE), Url("other", TRUE, TRUE)}

World(dir, archive) ==
  [dir |-> dir, archive |-> archive, netloc |-> {"ftp"}, schemes |-> {"ftp", "file"},
   now |-> CurTime, zone |-> Newfoundland]

Opt(o, value) == [opt |-> o, value |-> value]

Early(at) == [opt |-> "restore-time", at |-> at]
Key(digits) == [opt |-> "sign-key", hex |-> TRUE, digits |-> digits]
Verbosity(word, digit) == [opt |-> "verbosity", word |-> word, digit |-> digit]

\* Options with what the program finds.
Settings ==
  {<<<<>>, World("empty", TRUE)>>, <<<<>>, World("full", TRUE)>>,
   <<<<>>, World("absent", TRUE)>>, <<<<>>, World("empty", FALSE)>>,
   <<<<Opt("force", ""), Opt("gpg-options", "x"), Key(8)>>, World("full", TRUE)>>,
   <<<<Opt("file-to-restore", "f"), Verbosity("e", 0)>>, World("empty", TRUE)>>,
   <<<<Opt("s3-class", "rrs"), Opt("s3-class", "ia")>>, World("full", TRUE)>>,
   <<<<Opt("time-separator", "_"), Early(W3(CurTime, Zulu, ":"))>>, World("empty", TRUE)>>,
   <<<<Early(W3(CurTime, Zulu, ":")), Opt("time-separator", "_")>>, World("empty", TRUE)>>,
   <<<<Opt("time-separator", "-")>>, World("empty", TRUE)>>,
   <<<<Key(9)>>, World("empty", TRUE)>>, <<<<Verbosity("", 10)>>, World("empty", TRUE)>>,
   <<<<Opt("name", "b"), Opt("exclude", "s"),
       [opt |-> "include-filelist", value |-> "l", opens |-> TRUE],
       [opt |-> "exclude-older-than", at |-> Interval(<<<<3, "D">>>>)]>>, World("full", TRUE)>>,
   <<<<[opt |-> "exclude-filelist", value |-> "m", opens |-> FALSE]>>, World("full", TRUE)>>}

CommandLines ==
  [about : {"command line"}, args : UNION {[1 .. n -> Arguments] : n \in 0 .. 3},
   setting : Settings]

-----------------------------------------------------------------------------
(***************************************************************************)
(* Collections of sets made at the times 1 to MaxSets, each full or on top *)
(* of the one before, of which some were removed; full signatures are in   *)
(* the store and for some chains in the archive directory too.             *)
(***************************************************************************)
MaxSets == 5

Collections ==
  {[about |-> "moment", S |-> S, local |-> local, time |-> time,
    base |-> [t \in 1 .. MaxSets |-> IF t \in fulls THEN 0 ELSE t - 1]] :
     S \in SUBSET (1 .. MaxSets) \ {{}}, local \in SUBSET {1, 3, 4},
     time \in 0 .. MaxSets + 1, fulls \in {F \in SUBSET (1 .. MaxSets) : 1 \in F}}

ChainsOf(i) == BackupChains(i.S, i.base, TRUE)

SigsOf(i) ==
  {[times |-> C, local |-> FALSE] : C \in ChainsOf(i)}
  \cup {[times |-> C, local |-> TRUE] : C \in {D \in ChainsOf(i) : Start(D) \in i.local}}

-----------------------------------------------------------------------------
Unanswered == [given |-> FALSE]
Given(a) == [given |-> TRUE, is |-> a]

Init ==
  /\ \/ input \in OwnTimes
     \/ input \in UserTimes
     \/ input \in Names
     \/ input \in CommandLines
     \/ input \in {i \in Collections : ChainsOf(i) # {}}
  /\ answer = Unanswered

ReadOwnTime ==
  /\ input.about = "own time"
  /\ answer' = Given(GenStrToTime(
       TimeToString(input.t, input.zone, input.dst, input.old, input.sep),
       CurTime, input.elsewhere, input.sep))

ReadUserTime ==
  /\ input.about = "user time"
  /\ answer' = Given(GenStrToTime(input.s, CurTime, input.zone, ":"))

ReadName ==
  /\ input.about = "name"
  /\ answer' = LET r == Parse(Get(input.d, input.writer), input.reader)
               IN  Given([as |-> r, through |-> IF r = None THEN "" ELSE FilteredOpen(r[1])])

ReadCommandLine ==
  /\ input.about = "command line"
  /\ answer' = Given(ProcessCommandLine(input.args, input.setting[1], input.setting[2]))

FindSets ==
  /\ input.about = "moment"
  /\ answer' = Given([sets |-> Restored(ChainsOf(input), input.time),
                      sigs |-> Listed(SigsOf(input), input.time)])

Next ==
  /\ ~answer.given
  /\ UNCHANGED input
  /\ ReadOwnTime \/ ReadUserTime \/ ReadName \/ ReadCommandLine
     \/ FindSets

Spec == Init /\ [][Next]_<<input, answer>>

-----------------------------------------------------------------------------
(***************************************************************************)
(* A time duplicity wrote is read back as the same time, in another zone   *)
(* and another season too; and a time a user gives, in a zone that is not  *)
(* both west of UTC and off the full hour, means what it says.             *)
(* (dup_time.py)                                                           *)
(***************************************************************************)
TimesReadBack ==
  answer.given =>
    /\ input.about = "own time" => answer.is = <<input.t>>
    /\ input.about = "user time" => answer.is = UserMeans(input)

(***************************************************************************)
(* A run takes exactly the files of runs with its prefixes for its own,    *)
(* reads of them all that was written into their names, and opens them as  *)
(* they were written: encrypted files are not compressed too.  Only a run  *)
(* with short names does not see long ones.  (file_naming.py, path.py)     *)
(***************************************************************************)
NamesReadBack ==
  answer.given /\ input.about = "name" =>
    IF /\ Letters(input.d, input.writer) = Letters(input.d, input.reader)
       /\ input.writer.short \/ ~input.reader.short
    THEN /\ answer.is.as = <<[input.d EXCEPT !.compressed = @ /\ ~input.d.encrypted]>>
         /\ answer.is.through = IF input.d.encrypted THEN "gpg"
                                ELSE IF input.d.compressed THEN "gzip" ELSE "plain"
    ELSE answer.is.as = None

(***************************************************************************)
(* What is done is what the usage text offers for such a command line, and *)
(* what it offers is done when nothing else is asked for.  One line that   *)
(* is accepted is in no usage: restore, with the path before the URL,      *)
(* makes a backup.  (commandline.py)                                       *)
(***************************************************************************)
Offered(args, action) ==
  \/ \E u \in Usage : Follows(args, u) /\ u.action = action
  \/ /\ Possible(args) = {"restore"}
     /\ Follows(<<Text({"incremental"})>> \o Tail(args), Offer("incremental", <<"path", "url">>, "inc"))
     /\ action = "inc"

Plain(args) ==
  \A i \in DOMAIN args : /\ args[i].is = "url" => args[i] = Store
                         /\ args[i].is = "count" => args[i].n > 0
                         /\ args[i].is = "time" => args[i].at = Number(5)

UsageKept ==
  answer.given /\ input.about = "command line" =>
    /\ ~answer.is.refused => Offered(input.args, answer.is.action)
    /\ \A u \in Usage :
         Follows(input.args, u) /\ Plain(input.args)
           /\ input.setting = <<<<>>, World("empty", TRUE)>>
         => ~answer.is.refused /\ answer.is.action = u.action

(***************************************************************************)
(* A restore takes the newest set of any chain that is not after the time, *)
(* with all that it builds on and nothing else, or the first full set if   *)
(* there is none; and the files listed for a time are those that would be  *)
(* restored.  (collections.py, get_backup_chain_at_time and                *)
(* get_signature_chain_at_time)                                            *)
(***************************************************************************)
Chained(i) == UNION ChainsOf(i)

MomentRestored ==
  answer.given /\ input.about = "moment" =>
    LET past   == {t \in Chained(input) : t <= input.time}
        newest == IF past # {} THEN End(past) ELSE Start(Chained(input))
        onto   == CHOOSE C \in ChainsOf(input) : newest \in C
    IN  /\ answer.is.sets = {t \in onto : t <= newest}
        /\ answer.is.sigs = answer.is.sets
=============================================================================
