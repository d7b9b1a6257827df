-------------------------------- MODULE Share --------------------------------
(***************************************************************************)
(* The part of the SMB share that the program's three mutating operations  *)
(* touch: a directory as a function from paths to inodes.  The server is   *)
(* not part of the repository; these definitions say what                  *)
(* src/src/smb/SmbSession.cpp asks of it (smb2_rename_async,               *)
(* smb2_link_async, smb2_unlink_async, none of which replaces an existing  *)
(* target) and what the integration tests rely on.                         *)
(*                                                                         *)
(* A path is the name of a file or that file's aside name, the             *)
(* ".hlmgr-tmp" sibling LinkRunner::tmpPath derives from it.  Searches      *)
(* never offer aside names as candidates (matchpairing::isTmpName), so a   *)
(* file to link is always one of Files.                                    *)
(***************************************************************************)
CONSTANTS Files,    \* the files a run of links may name
          Inodes,   \* file contents, told apart by identity
          NoFile    \* the entry of a path at which nothing exists

ASSUME NoFileAssumption == NoFile \notin Inodes

Name(f) == <<f, "name">>
Tmp(f)  == <<f, "tmp">>
Path    == Files \X {"name", "tmp"}
Entry   == Inodes \cup {NoFile}

(***************************************************************************)
(* A mutating request.  A removal has one path, recorded in both fields.   *)
(* Whatever the kind, the file an operation is about is the file of "to".  *)
(***************************************************************************)
Op == [kind : {"rename", "link", "remove"}, from : Path, to : Path]

RenameOp(a, b) == [kind |-> "rename", from |-> a, to |-> b]
LinkOp(a, b)   == [kind |-> "link",   from |-> a, to |-> b]
RemoveOp(a)    == [kind |-> "remove", from |-> a, to |-> a]
Victim(op)     == op.to[1]

\* Rename and link never overwrite: an occupied target makes them fail.
Applicable(share, op) ==
  /\ share[op.from] # NoFile
  /\ op.kind # "remove" => share[op.to] = NoFile

Applied(share, op) ==
  CASE op.kind = "rename" -> [share EXCEPT ![op.to] = share[op.from],
                                           ![op.from] = NoFile]
    [] op.kind = "link"   -> [share EXCEPT ![op.to] = share[op.from]]
    [] op.kind = "remove" -> [share EXCEPT ![op.from] = NoFile]
=============================================================================
