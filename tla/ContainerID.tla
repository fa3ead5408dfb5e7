----------------------------- MODULE ContainerID -----------------------------
(***************************************************************************)
(* How docker-gen finds the ID of the container it runs in                 *)
(* (GetCurrentContainerID in internal/context/context.go): by reading      *)
(* files of /proc line by line, first for an ID that begins with HOSTNAME  *)
(* and then for any.  A line is the IDs in it, from left to right, each    *)
(* with what stands around it.                                             *)
(***************************************************************************)
EXTENDS Naturals, Sequences

CONSTANTS
  OwnID,        \* the container docker-gen runs in
  IDs,          \* the strings of 64 characters that are in the files
  EmptyID,
  TooLong,      \* a line that ends the reading of its file with an error
  FileLists     \* the files, as sequences of lines

\* "containers/<id>"; "/<id>/hostname", hosts or resolv.conf, and Podman's
\* "/<id>/userdata/hostname" and so on; or neither, as for a layer of an image.
Anchors == {"containers", "file", "none"}
Lines == [mount : BOOLEAN, ids : Seq([id : IDs, anchor : Anchors])]

ASSUME ContainerIDAssumption ==
  /\ OwnID \in IDs /\ EmptyID \notin IDs
  /\ FileLists \subseteq Seq(Seq(Lines \cup {TooLong}))

VARIABLES
  named,        \* the IDs that begin with HOSTNAME
  files,        \* what is in the files; one that cannot be opened is empty
  matcher,      \* the matcher of this pass over them, or "done"
  file, line,   \* where it is reading
  id            \* the result

idVars == <<named, files, matcher, file, line, id>>

\* HOSTNAME is the beginning of OwnID, or no twelve letters and digits or not in
\* any of the files: no ID is matched with it then.
IDInit ==
  /\ named \in {{}, {OwnID}}
  /\ files \in FileLists
  /\ matcher = "hostname" /\ file = 1 /\ line = 1
  /\ id = EmptyID

-------------------------------------------------------------------------------
\* Mutant of Accepted: a line without the hostname is good for any ID at once.
AcceptedAtOnce(ids) ==
  IF \E n \in DOMAIN ids : ids[n].id \in named THEN named ELSE IDs

\* matchContainerIDWithHostname, matchContainerID
Accepted(ids) == IF matcher = "hostname" THEN named ELSE IDs

\* Mutant of Candidates: a line of mountinfo is a line like any other.
CandidatesAnywhere(l) == {n \in DOMAIN l.ids : l.ids[n].id \in Accepted(l.ids)}

\* matchContainerIDWithRegex: the places in the line it may match.  In a line of
\* mountinfo "containers/" goes before the files, and nothing else matches.
Candidates(l) ==
  LET accepted   == {n \in DOMAIN l.ids : l.ids[n].id \in Accepted(l.ids)}
      Anchored(a) == {n \in accepted : l.ids[n].anchor = a}
  IN  IF ~l.mount THEN accepted
      ELSE IF Anchored("containers") # {} THEN Anchored("containers")
      ELSE Anchored("file")

\* The file has a next line that can be read.
HasLine == line <= Len(files[file]) /\ files[file][line] # TooLong

\* readContainerIDFromFile: the leftmost of them ends the search.
ReadLine ==
  /\ matcher # "done" /\ file <= Len(files) /\ HasLine
  /\ LET l == files[file][line]
         places == Candidates(l)
     IN  IF places = {}
         THEN line' = line + 1 /\ UNCHANGED <<matcher, id>>
         ELSE /\ id' = l.ids[CHOOSE n \in places : \A m \in places : n <= m].id
              /\ matcher' = "done"
              /\ UNCHANGED line
  /\ UNCHANGED <<named, files, file>>

\* The end of the file, or an error of the scanner.
NextFile ==
  /\ matcher # "done" /\ file <= Len(files) /\ ~HasLine
  /\ file' = file + 1 /\ line' = 1
  /\ UNCHANGED <<named, files, matcher, id>>

NextMatcher ==
  /\ matcher # "done" /\ file > Len(files)
  /\ IF matcher = "hostname"
     THEN matcher' = "any" /\ file' = 1
     ELSE matcher' = "done" /\ UNCHANGED file
  /\ line' = 1
  /\ UNCHANGED <<named, files, id>>

IDNext == ReadLine \/ NextFile \/ NextMatcher

IDSpec == IDInit /\ [][IDNext]_idVars

-------------------------------------------------------------------------------
(* Properties.                                                             *)

\* The IDs of containers that the part of the files that can be read has: those
\* of a line of mountinfo that are anchored ("Match on containers/<id> while also
\* supporting file-anchored paths and Podman paths", context.go), and all others.
OfferedIn(l) ==
  {l.ids[k].id : k \in {k \in DOMAIN l.ids : l.mount => l.ids[k].anchor # "none"}}

Readable(lines) == {n \in DOMAIN lines : \A m \in 1..n : lines[m] # TooLong}

Offered ==
  UNION {UNION {OfferedIn(files[f][n]) : n \in Readable(files[f])} : f \in DOMAIN files}

\* An ID that begins with HOSTNAME goes before all others, wherever they stand
\* ("It attempts to match the HOSTNAME first then use the fallback method",
\* context.go).
HostnameWins ==
  matcher = "done" /\ OwnID \in named /\ OwnID \in Offered => id = OwnID

\* An image layer or a volume is never taken for the container, and an ID is
\* found if there is one.
NeverALayer ==
  matcher = "done" => IF Offered = {} THEN id = EmptyID ELSE id \in Offered
===============================================================================
