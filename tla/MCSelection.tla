----------------------------- MODULE MCSelection ------------------------------
(***************************************************************************)
(* Trees with two names and three levels, and options that match, scan and *)
(* miss them.                                                              *)
(***************************************************************************)
EXTENDS Selection

MCNames == {1, 2}

Dir(p)  == Node(p, "dir", TRUE, FALSE, FALSE)
File(p) == Node(p, "reg", TRUE, FALSE, FALSE)

\* A directory in a directory, a file beside each.
Plain == {Dir(<<>>), Dir(<<1>>), File(<<1, 1>>), Dir(<<1, 2>>), File(<<1, 2, 1>>),
          File(<<1, 2, 2>>), File(<<2>>)}

\* Empty, locked and foreign directories; an old file and a device.
Odd == {Dir(<<>>), Dir(<<1>>), Dir(<<1, 1>>), Dir(<<1, 2>>),
        Node(<<1, 2, 1>>, "dev", TRUE, FALSE, FALSE),
        Node(<<1, 2, 2>>, "reg", TRUE, TRUE, FALSE),
        Node(<<2>>, "dir", TRUE, FALSE, TRUE), File(<<2, 1>>)}
Locked == {Dir(<<>>), Node(<<1>>, "dir", FALSE, FALSE, FALSE), File(<<1, 1>>),
           Dir(<<2>>), Node(<<2, 1>>, "reg", FALSE, FALSE, FALSE), File(<<2, 2>>)}

MCTrees == {Plain, Odd, Locked}

One == {1}
Two == {2}
Both == {1, 2}

\* root/1, root/1/2/1, root/*/2, root/**, root/**/2, root/**1/, root/1/
Patterns == {Glob(<<One>>, 0, {}, FALSE), Glob(<<One, Two, One>>, 0, {}, FALSE),
             Glob(<<Both, Two>>, 0, {}, FALSE), Glob(<<>>, 1, Both, FALSE),
             Glob(<<>>, 2, Two, FALSE), Glob(<<>>, 1, One, TRUE)}

MCOptions ==
  [by : {"glob"}, glob : Patterns, include : BOOLEAN]
  \cup [by : {"regexp"}, names : {Two}, include : BOOLEAN]
  \cup [by : {"present"}, name : {1}, include : {FALSE}]
  \cup [by : {"device", "older", "far"}, include : {FALSE}]
  \cup [by : {"list"}, include : {TRUE},
        lines : {<<Line("none", Glob(<<One, Two, Two>>, 0, {}, FALSE)),
                   Line("comment", Glob(<<Two>>, 0, {}, FALSE)),
                   Line("minus", Glob(<<>>, 1, Both, FALSE))>>}]

MCFickle == {<<1, 2>>, <<2>>}
=============================================================================
