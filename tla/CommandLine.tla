----------------------------- MODULE CommandLine ------------------------------
(***************************************************************************)
(* What a command line makes the program do: commandline.py, and the URLs  *)
(* of backend.py.                                                          *)
(*                                                                         *)
(* An argument is a word, of which only the commands it begins matter, a   *)
(* URL, a time or a count; a word that is not taken for a command is a     *)
(* local path.  An option is a record with its name in opt.  w is what the *)
(* program finds: the local path, whether the archive directory can be     *)
(* had, the schemes with a backend and those whose URLs name a host, and   *)
(* the time and zone.  Which of several errors is reported first is left   *)
(* out, so that a command line is refused if any of them is there.         *)
(***************************************************************************)
EXTENDS TimeStrings, FiniteSets

Commands == {"cleanup", "collection-status", "full", "incremental",
             "list-current-files", "remove-older-than", "remove-all-but-n-full",
             "remove-all-inc-of-but-n-full", "restore", "verify", "replicate"}

Text(begins) == [is |-> "text", begins |-> begins]
Time(at) == [is |-> "time", at |-> at]
Count(n) == [is |-> "count", n |-> n]
Url(scheme, host, rooted) ==
  [is |-> "url", scheme |-> scheme, host |-> host, rooted |-> rooted]

-----------------------------------------------------------------------------
(***************************************************************************)
(* ParsedUrl: a local path, a URL, or neither.  A URL of a scheme with     *)
(* hosts needs one; of another, the place must begin with two slashes,     *)
(* which a host or one slash is made into.                                 *)
(***************************************************************************)
ParsedUrl(a, netloc) ==
  CASE a.is # "url" -> "path"
    [] a.is = "url" /\ a.scheme \in netloc ->
         IF a.host THEN "url" ELSE "invalid"
    [] a.is = "url" /\ a.scheme \notin netloc ->
         IF a.host \/ a.rooted THEN "url" ELSE "invalid"

\* get_backend: the schemes are known once the backends are imported.
HasBackend(a, w) == ParsedUrl(a, w.netloc) = "url" /\ a.scheme \in w.schemes

-----------------------------------------------------------------------------
(***************************************************************************)
(* The options, taken in the order they are given.  g holds what becomes   *)
(* of them in globals; g.bad says that one of them was refused.            *)
(***************************************************************************)
Exclusions == {"exclude", "exclude-device-files", "exclude-if-present",
               "exclude-other-filesystems", "exclude-regexp", "exclude-older-than"}
Inclusions == {"include", "include-regexp"}
FileLists == {"exclude-filelist", "exclude-globbing-filelist",
              "include-filelist", "include-globbing-filelist"}

Defaults == [bad |-> FALSE, force |-> FALSE, restore_dir |-> FALSE, sep |-> ":",
             restore_time |-> None, s3 |-> {}, gpg_options |-> <<>>, backup_name |-> "",
             select_opts |-> <<>>, select_files |-> <<>>]

\* check_verbosity: a digit, a word or its first letter
BadVerbosity(o) ==
  /\ o.word \notin {"e", "error", "w", "warning", "n", "notice", "i", "info", "d", "debug"}
  /\ o.word # "" \/ o.digit \notin 0 .. 9

\* set_sign_key: a number of hexadecimal digits gpg knows a key by
BadSignKey(o) == ~o.hex \/ o.digits \notin {8, 16, 40}

\* check_time, with the separator as it is when the option is met
TimeOf(g, o, w) == GenStrToTime(o.at, w.now, w.zone, g.sep)

BadOption(g, o, w) ==
  CASE o.opt = "verbosity" -> BadVerbosity(o)
    [] o.opt = "sign-key" -> BadSignKey(o)
    [] o.opt = "time-separator" -> o.value = "-"
    [] o.opt \in {"restore-time", "exclude-older-than"} -> TimeOf(g, o, w) = None
    [] o.opt \in FileLists -> ~o.opens
    [] OTHER -> FALSE

TakeAction(g, o, w) ==
  CASE BadOption(g, o, w) -> [g EXCEPT !.bad = TRUE]
    [] ~BadOption(g, o, w) ->
      CASE o.opt = "force" -> [g EXCEPT !.force = TRUE]
        [] o.opt = "file-to-restore" -> [g EXCEPT !.restore_dir = TRUE]
        [] o.opt = "time-separator" -> [g EXCEPT !.sep = o.value]
        [] o.opt = "restore-time" -> [g EXCEPT !.restore_time = TimeOf(g, o, w)]
        [] o.opt = "s3-class" -> [g EXCEPT !.s3 = @ \cup {o.value}]
        [] o.opt = "name" -> [g EXCEPT !.backup_name = o.value]
        [] o.opt = "gpg-options" -> [g EXCEPT !.gpg_options = Append(@, o.value)]
        [] o.opt \in Exclusions \cup Inclusions -> [g EXCEPT !.select_opts = Append(@, o)]
        [] o.opt \in FileLists -> [g EXCEPT !.select_opts = Append(@, o),
                                            !.select_files = Append(@, o.value)]
        [] OTHER -> g

Options(opts, w) == FoldLeft(LAMBDA g, o : TakeAction(g, o, w), Defaults, opts)

-----------------------------------------------------------------------------
(***************************************************************************)
(* The command: the first argument, if it begins one command and no other. *)
(***************************************************************************)
Possible(args) ==
  IF args = <<>> \/ args[1].is # "text" THEN {} ELSE args[1].begins

Command(args) ==
  IF Cardinality(Possible(args)) = 1 THEN CHOOSE c \in Possible(args) : TRUE ELSE ""

Removals == {"remove-older-than", "remove-all-but-n-full", "remove-all-inc-of-but-n-full"}

NumExpect(cmd) ==
  IF cmd \in Removals \cup {"cleanup", "collection-status", "list-current-files"}
  THEN 1 ELSE 2

\* The arguments behind the command and the time or the count of a removal.
Places(args) ==
  LET cmd == Command(args)
      taken == (IF cmd = "" THEN 0 ELSE 1) + (IF cmd \in Removals THEN 1 ELSE 0)
  IN  SubSeq(args, taken + 1, Len(args))

BadParameter(args, g, w) ==
  LET cmd == Command(args)
  IN  /\ cmd \in Removals
      /\ \/ Len(args) < 2
         \/ /\ cmd = "remove-older-than"
            /\ \/ args[2].is # "time"
               \/ GenStrToTime(args[2].at, w.now, w.zone, g.sep) = None
         \/ /\ cmd # "remove-older-than"
            /\ args[2].is # "count" \/ args[2].n <= 0

(***************************************************************************)
(* args_to_path_backend: one of two is a URL, the other a path.  The first *)
(* pass is made before the backends are imported, with no scheme known to  *)
(* have hosts; set_backend makes the second.  replicate takes two URLs.    *)
(***************************************************************************)
BadPlaces(args, w) ==
  LET places == Places(args)
      Kinds(netloc) == [i \in DOMAIN places |-> ParsedUrl(places[i], netloc)]
      Wrong(kinds) ==
        IF Command(args) = "replicate" THEN kinds # <<"url", "url">>
        ELSE kinds \notin {<<"url", "path">>, <<"path", "url">>}
  IN  \/ Len(places) # NumExpect(Command(args))
      \/ Len(places) = 2 /\ (Wrong(Kinds({})) \/ Wrong(Kinds(w.netloc)))
      \/ \E i \in DOMAIN places : /\ Len(places) = 1 \/ places[i].is = "url"
                                  /\ ~HasBackend(places[i], w)

(***************************************************************************)
(* ProcessCommandLine: the action.  Of two places the order decides: the   *)
(* path first is a backup, the URL first a restore.                        *)
(***************************************************************************)
Action(args) ==
  LET cmd == Command(args)
      backup == Places(args)[1].is # "url"
  IN  CASE cmd = "list-current-files" -> "list-current"
        [] cmd = "remove-older-than" -> "remove-old"
        [] cmd \in {"collection-status", "cleanup", "remove-all-but-n-full",
                    "remove-all-inc-of-but-n-full", "replicate"} -> cmd
        [] NumExpect(cmd) = 2 /\ cmd # "replicate" ->
             CASE backup /\ cmd = "full" -> "full"
               [] backup /\ cmd # "full" -> "inc"
               [] ~backup /\ cmd = "verify" -> "verify"
               [] ~backup /\ cmd # "verify" -> "restore"

\* process_local_dir: the path of a restore must be new or empty.
BadLocalDir(action, g, w) ==
  CASE action = "restore" -> w.dir \notin {"absent", "empty"} /\ ~g.force
    [] action \in {"verify", "full", "inc"} -> w.dir = "absent"
    [] OTHER -> FALSE

\* A mutation of Inconsistent: a restore is not checked against incremental.
InconsistentFull(action, cmd, g) ==
  CASE action \in {"restore", "verify"} -> cmd = "full"
    [] action \in {"full", "inc"} ->
         cmd = "verify" \/ g.restore_dir \/ Cardinality(g.s3) >= 2
    [] OTHER -> FALSE

\* check_consistency
Inconsistent(action, cmd, g) ==
  CASE action \in {"restore", "verify"} -> cmd \in {"full", "incremental"}
    [] action \in {"full", "inc"} ->
         cmd = "verify" \/ g.restore_dir \/ Cardinality(g.s3) >= 2
    [] OTHER -> FALSE

(***************************************************************************)
(* expand_archive_dir: the archive directory is named for the backup, or   *)
(* for the text of the URL, by its hash.                                   *)
(***************************************************************************)
Target(args) ==
  LET places == Places(args)
  IN  CHOOSE a \in {places[i] : i \in DOMAIN places} :
        a.is = "url" /\ (Command(args) = "replicate" => a = places[2])

ArchiveDir(args, g) ==
  IF g.backup_name # "" THEN [named |-> g.backup_name] ELSE [hash |-> Target(args)]

\* set_archive_dir: it is there or can be made.
BadArchiveDir(w) == ~w.archive

Refused == [refused |-> TRUE]

(***************************************************************************)
(* The whole of it: what is done, with which options.                      *)
(***************************************************************************)
ProcessCommandLine(args, opts, w) ==
  LET g == Options(opts, w)
  IN  IF \/ g.bad
         \/ Cardinality(Possible(args)) > 1
         \/ BadParameter(args, g, w)
         \/ BadPlaces(args, w)
         \/ BadArchiveDir(w)
      THEN Refused
      ELSE IF \/ BadLocalDir(Action(args), g, w)
              \/ Inconsistent(Action(args), Command(args), g)
      THEN Refused
      ELSE [refused |-> FALSE, action |-> Action(args), options |-> g,
            archive |-> ArchiveDir(args, g)]

-----------------------------------------------------------------------------
(***************************************************************************)
(* What the usage text offers: a command, what follows it, and the action. *)
(* An empty command is one left out.                                       *)
(***************************************************************************)
Offer(cmd, follows, action) == [cmd |-> cmd, follows |-> follows, action |-> action]

Usage ==
  {Offer("full", <<"path", "url">>, "full"),
   Offer("incremental", <<"path", "url">>, "inc"),
   Offer("", <<"path", "url">>, "inc"),
   Offer("restore", <<"url", "path">>, "restore"),
   Offer("", <<"url", "path">>, "restore"),
   Offer("verify", <<"url", "path">>, "verify"),
   Offer("replicate", <<"url", "url">>, "replicate"),
   Offer("remove-older-than", <<"time", "url">>, "remove-old")}
  \cup {Offer(c, <<"count", "url">>, c) :
          c \in {"remove-all-but-n-full", "remove-all-inc-of-but-n-full"}}
  \cup {Offer(c, <<"url">>, c) : c \in {"cleanup", "collection-status"}}
  \cup {Offer("list-current-files", <<"url">>, "list-current")}

\* Whether args is what u offers, the command written out or shortened.
Follows(args, u) ==
  LET first == IF u.cmd = "" THEN 0 ELSE 1
      Fits(a, kind) == IF kind = "path" THEN a.is # "url" ELSE a.is = kind
  IN  /\ IF u.cmd = "" THEN Possible(args) = {} ELSE Possible(args) = {u.cmd}
      /\ Len(args) = first + Len(u.follows)
      /\ \A i \in DOMAIN u.follows : Fits(args[first + i], u.follows[i])
=============================================================================
