--------------------------- MODULE ProvisionFiles ---------------------------
(***************************************************************************)
(* The files of a Provision: the template's defaults with the user's laid  *)
(* over them.  A list of files is a sequence of records [path, body]; body *)
(* stands for mode and content, and for the rest of what specEqual looks   *)
(* at.                                                                     *)
(***************************************************************************)
EXTENDS Naturals, Sequences, FiniteSets
LOCAL INSTANCE SequencesExt

At(files, path) == { i \in DOMAIN files : files[i].path = path }
LastAt(files, path) ==
  CHOOSE i \in At(files, path) : \A j \in At(files, path) : j <= i

\* The index of mergeFiles: a path listed twice is found at its last place.
Lay(files, file) ==
  IF At(files, file.path) = {}
  THEN Append(files, file)
  ELSE [files EXCEPT ![LastAt(files, file.path)] = file]

\* Mutant: the user's files come after the defaults, whatever their paths.
MergeFilesAppended(defaults, user) == defaults \o user

MergeFiles(defaults, user) == FoldLeft(Lay, defaults, user)

(***************************************************************************)
(* What that is to mean: every path either of them lists, the user's word  *)
(* where the user has one, and no path twice that was not twice before.    *)
(***************************************************************************)
Paths(files) == { files[i].path : i \in DOMAIN files }

Layered(files, defaults, user) ==
  /\ Paths(files) = Paths(defaults) \cup Paths(user)
  /\ Len(files) = Len(defaults) + Cardinality(Paths(user) \ Paths(defaults))
  /\ \A path \in Paths(files) :
       LET from == IF path \in Paths(user) THEN user ELSE defaults
       IN  files[LastAt(files, path)] = from[LastAt(from, path)]

=============================================================================
