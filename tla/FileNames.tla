------------------------------ MODULE FileNames -------------------------------
(***************************************************************************)
(* The names of duplicity's files, made and read: file_naming.py.          *)
(*                                                                         *)
(* A name is a head and the words behind its dots.  The head is the        *)
(* letters of the prefixes, then the word that names the kind.  A run's    *)
(* options are a record c: c.short, c.old and c.sep (--short-filenames,    *)
(* --old-filenames, --time-separator), c.prefix, a sequence of letters,    *)
(* and c.archive, c.manifest and c.signature, the prefixes of one kind of  *)
(* file.  A description d is what ParseResults holds.                      *)
(***************************************************************************)
EXTENDS TimeStrings

Word(w) == [w |-> w]
Digits(ds) == [w |-> "digits", ds |-> ds]
Stamp(s) == [w |-> "stamp", s |-> s]
Vol(n) == [w |-> "vol", num |-> n]

(***************************************************************************)
(* to_base36 and from_base36, with a digit as a number below 36.           *)
(***************************************************************************)
ToBase36[n \in Nat] ==
  IF n = n % 36 THEN <<n % 36>> ELSE Append(ToBase36[n \div 36], n % 36)

FromBase36(ds) == FoldLeft(LAMBDA total, digit : total * 36 + digit, 0, ds)

\* get_suffix
Suffix(d, c) ==
  CASE d.encrypted -> <<Word(IF c.short THEN "g" ELSE "gpg")>>
    [] ~d.encrypted /\ d.compressed -> <<Word(IF c.short THEN "z" ELSE "gz")>>
    [] OTHER -> <<>>

\* Whether the times of a description are two: an increment's, from and to.
IsIncrement(d) == d.type \in {"inc", "new-sig"}

(***************************************************************************)
(* get: the name of a file of this session in the options c.  The times    *)
(* are written as the run writes them, in its zone and season.             *)
(***************************************************************************)
TimeWords(d, c) ==
  LET Short(t) == Digits(ToBase36[t])
      Long(t)  == Stamp(TimeToString(t, c.zone, c.dst, c.old, c.sep))
  IN  CASE c.short /\ IsIncrement(d) -> <<Short(d.start), Short(d.time)>>
        [] c.short /\ ~IsIncrement(d) -> <<Short(d.time)>>
        [] ~c.short /\ IsIncrement(d) -> <<Long(d.start), Word("to"), Long(d.time)>>
        [] ~c.short /\ ~IsIncrement(d) -> <<Long(d.time)>>

PartWords(d, c) ==
  CASE d.part = "volume" ->
         IF c.short THEN <<Digits(ToBase36[d.volume]), Word("dt")>>
         ELSE <<Vol(d.volume), Word("difftar")>>
    [] d.part = "manifest" -> <<Word(IF c.short THEN "m" ELSE "manifest")>>
    [] d.part = "signature" -> <<Word(IF c.short THEN "st" ELSE "sigtar")>>

HeadOf(d, c) ==
  LET kinds == IF c.short THEN [full |-> "df", inc |-> "di",
                                fullsig |-> "dfs", newsig |-> "dns"]
               ELSE [full |-> "duplicity-full", inc |-> "duplicity-inc",
                     fullsig |-> "duplicity-full-signatures",
                     newsig |-> "duplicity-new-signatures"]
  IN  CASE d.type = "full-sig" -> c.prefix \o c.signature \o <<kinds.fullsig>>
        [] d.type = "new-sig"  -> c.prefix \o c.signature \o <<kinds.newsig>>
        [] d.part = "volume"   -> c.prefix \o c.archive \o <<kinds[d.type]>>
        [] d.part = "manifest" -> c.prefix \o c.manifest \o <<kinds[d.type]>>

Get(d, c) ==
  [head  |-> HeadOf(d, c),
   words |-> TimeWords(d, c) \o PartWords(d, c)
             \o (IF d.partial THEN <<Word(IF c.short THEN "p" ELSE "part")>> ELSE <<>>)
             \o Suffix(d, c)]

-----------------------------------------------------------------------------
(***************************************************************************)
(* The expressions of prepare_regex: the letters of a head, the words that *)
(* must follow, the word that marks a partial file.  A prefix is put into  *)
(* an expression as it is, so that a dot in it stands for any letter.      *)
(***************************************************************************)
Regex(type, part, prefix, kind, words, partial) ==
  [type |-> type, part |-> part, head |-> prefix \o <<kind>>,
   words |-> words, partial |-> partial]

ShortVolumes(c) ==
  LET p == c.prefix \o c.archive
  IN  {Regex("full", "volume", p, "df", <<"digits", "digits", "dt">>, "p"),
       Regex("inc", "volume", p, "di", <<"digits", "digits", "digits", "dt">>, "")}

LongVolumes(c) ==
  LET p == c.prefix \o c.archive
  IN  {Regex("full", "volume", p, "duplicity-full", <<"stamp", "vol", "difftar">>, "part"),
       Regex("inc", "volume", p, "duplicity-inc",
             <<"stamp", "to", "stamp", "vol", "difftar">>, "")}

ShortManifests(c) ==
  LET p == c.prefix \o c.manifest
  IN  {Regex("full", "manifest", p, "df", <<"digits", "m">>, "p"),
       Regex("inc", "manifest", p, "di", <<"digits", "digits", "m">>, "p")}

LongManifests(c) ==
  LET p == c.prefix \o c.manifest
  IN  {Regex("full", "manifest", p, "duplicity-full", <<"stamp", "manifest">>, "part"),
       Regex("inc", "manifest", p, "duplicity-inc",
             <<"stamp", "to", "stamp", "manifest">>, "part")}

ShortSignatures(c) ==
  LET p == c.prefix \o c.signature
  IN  {Regex("full-sig", "signature", p, "dfs", <<"digits", "st">>, "p"),
       Regex("new-sig", "signature", p, "dns", <<"digits", "digits", "st">>, "p")}

LongSignatures(c) ==
  LET p == c.prefix \o c.signature
  IN  {Regex("full-sig", "signature", p, "duplicity-full-signatures",
             <<"stamp", "sigtar">>, "part"),
       Regex("new-sig", "signature", p, "duplicity-new-signatures",
             <<"stamp", "to", "stamp", "sigtar">>, "part")}

\* A mutation of Matches: the expression is not tied to the start of the name.
MatchesUntied(x, name) ==
  LET skipped == Len(name.head) - Len(x.head)
  IN  /\ skipped >= 0
      /\ \A i \in DOMAIN x.head : x.head[i] \in {".", name.head[skipped + i]}
      /\ Len(x.words) <= Len(name.words)
      /\ \A i \in DOMAIN x.words : x.words[i] = name.words[i].w

Matches(x, name) ==
  /\ Len(x.head) = Len(name.head)
  /\ \A i \in DOMAIN x.head : x.head[i] \in {".", name.head[i]}
  /\ Len(x.words) <= Len(name.words)
  /\ \A i \in DOMAIN x.words : x.words[i] = name.words[i].w

(***************************************************************************)
(* check_full, check_inc and check_sig: the short expressions are tried    *)
(* first, the long ones only by a run without short names.  A time that is *)
(* no time, and the time 0, make the file nobody's.                        *)
(***************************************************************************)
Readable(c) == ShortVolumes(c) \cup ShortManifests(c) \cup ShortSignatures(c)
               \cup IF c.short THEN {}
                    ELSE LongVolumes(c) \cup LongManifests(c) \cup LongSignatures(c)

\* str2time
StrToTime(word, c) ==
  NonZero(IF word.w = "digits" THEN <<FromBase36(word.ds)>>
          ELSE GenStrToTime(word.s, 0, c.zone, c.sep))

TimesOf(x, name, c) ==
  [i \in {j \in DOMAIN x.words : \/ x.words[j] = "stamp"
                                 \/ /\ x.words[j] = "digits"
                                    /\ x.words[j + 1] # "dt"} |->
     StrToTime(name.words[i], c)]

\* get_vol_num, from the word before the last of the expression
VolumeNumber(x, name) ==
  LET word == name.words[Len(x.words) - 1]
  IN  IF word.w = "digits" THEN FromBase36(word.ds) ELSE word.num

Description(x, name, times, c) ==
  LET last == name.words[Len(name.words)].w
      next == Len(x.words) + 1
  IN  [type |-> x.type, part |-> x.part,
       volume |-> IF x.part = "volume" THEN VolumeNumber(x, name) ELSE 0,
       time |-> times[CHOOSE i \in DOMAIN times : \A j \in DOMAIN times : j <= i][1],
       start |-> IF IsIncrement(x) THEN times[1][1] ELSE 0,
       partial |-> /\ x.part # "volume"
                   /\ next <= Len(name.words) /\ name.words[next].w = x.partial,
       compressed |-> last = "z" \/ (~c.short /\ last = "gz"),
       encrypted |-> last = "g" \/ (~c.short /\ last = "gpg")]

(***************************************************************************)
(* parse: what a file of the store or of the archive directory is, <<>> if *)
(* it is none of this run's.                                               *)
(***************************************************************************)
Parse(name, c) ==
  LET fits == {x \in Readable(c) : Matches(x, name)}
      x    == CHOOSE y \in fits : TRUE
      times == TimesOf(x, name, c)
  IN  IF fits = {} THEN None
      ELSE IF \E i \in DOMAIN times : times[i] = None THEN None
      ELSE <<Description(x, name, times, c)>>

(***************************************************************************)
(* DupPath.filtered_open: what a file is written and read through, by what *)
(* its name says.                                                          *)
(***************************************************************************)
FilteredOpen(d) ==
  CASE d.compressed -> "gzip"
    [] ~d.compressed /\ d.encrypted -> "gpg"
    [] OTHER -> "plain"
=============================================================================
