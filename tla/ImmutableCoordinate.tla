-------------------------- MODULE ImmutableCoordinate --------------------------
(***************************************************************************)
(* What the immutable Shared package promises the services that depend on  *)
(* it, without saying how: a publication begins only while nothing at all  *)
(* is there, it adds the files of one commit, each once, and when it ends, *)
(* complete or not, no other publication begins before the whole version   *)
(* has been deleted.                                                       *)
(***************************************************************************)
CONSTANTS
  Artifacts,            \* the files of the coordinate
  Commits,              \* the commits that may publish it
  Missing,              \* no such file
  Pinned,               \* Pinned[c][a]: the bytes of file a, by commit c
  NoCommit              \* no publication is under way

VARIABLES content,      \* content[a]: the published file, or Missing
          publisher     \* the commit being published, or NoCommit

coordinateVars == <<content, publisher>>

Empty == [a \in Artifacts |-> Missing]

\* Some files of one commit, left by whoever published before.
CoordinateInit ==
  /\ \E c \in Commits, present \in SUBSET Artifacts :
       content = [a \in Artifacts |->
                    IF a \in present THEN Pinned[c][a] ELSE Missing]
  /\ publisher = NoCommit

Begin(c) ==
  /\ publisher = NoCommit
  /\ content = Empty
  /\ publisher' = c
  /\ UNCHANGED content

\* A file is added; with it, the publication may end.
Add(a) ==
  /\ publisher # NoCommit
  /\ content[a] = Missing
  /\ content' = [content EXCEPT ![a] = Pinned[publisher][a]]
  /\ publisher' \in {publisher, NoCommit}

End ==
  /\ publisher' = NoCommit
  /\ UNCHANGED content

\* Somebody deletes the version, even while it is being published.
Delete ==
  /\ content' = Empty
  /\ UNCHANGED publisher

CoordinateNext ==
  \/ \E c \in Commits : Begin(c)
  \/ \E a \in Artifacts : Add(a)
  \/ End
  \/ Delete

CoordinateSpec == CoordinateInit /\ [][CoordinateNext]_coordinateVars
===============================================================================
