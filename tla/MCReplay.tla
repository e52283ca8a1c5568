------------------------------ MODULE MCReplay ------------------------------
(* FuzzReplay on a few command lines: one directory, one of its files named  *)
(* again, files that are empty, as large as may be, too large and not to be  *)
(* opened, a directory without files and a path that is not there.           *)
EXTENDS FuzzReplay

MCNumeral == "0" :> 0 @@ "5" :> 5 @@ "9" :> 9

\* "large" is a directory with a file that is too large behind a good one.
MCFound ==
  "dir" :> {"dir/empty", "dir/full"} @@ "dir/full" :> {"dir/full"}
    @@ "large" :> {"large/good", "large/over"} @@ "locked" :> {"locked"} @@ "bare" :> {}
MCPlace ==
  "dir/empty" :> 1 @@ "dir/full" :> 2 @@ "large/good" :> 3 @@ "large/over" :> 4 @@ "locked" :> 5
MCFileSize == "dir/empty" :> 0 @@ "dir/full" :> 5 @@ "large/good" :> 2 @@ "large/over" :> 6

Words == {"--mutations", "5", "9", "--seed", "--", "--require-valid", "-x", "dir", "dir/full", ""}

MCCommandLines ==
  BoundedSeq(Words, 3)
    \cup {<<"--help">>, <<"dir", "dir/full", "--mutations", "5">>, <<"--require-valid", "dir", "--mutations", "5">>,
          <<"--artifacts", "--mutations", "--seed", "0", "dir/full">>}
    \cup {<<path>> : path \in {"large", "locked", "bare", "missing"}}
=============================================================================
