----------------------------- MODULE DatasetPush -----------------------------
(***************************************************************************)
(* The write lifecycle of a dataset (delegates/datasets_client.py): clone, *)
(* draft, push and publish from one clone, with other clients that open    *)
(* and publish drafts, a user who edits the tree at any time, requests     *)
(* that are lost or served late, and a process that dies at any step.      *)
(*                                                                         *)
(* The server keeps the files of every version; the newest may be an open  *)
(* draft, and only a draft changes.  The clone keeps the tree, the hashes  *)
(* of its last sync (.agency/files.json) and the status of the version it  *)
(* believes to be at (.agency/dataset.json).  A file stands for its        *)
(* content, a hash for the content hashed.                                 *)
(*                                                                         *)
(* The clone is used freely, or by the example script                      *)
(* (examples/quick_dataset_draft_push_publish.py), which starts again in a *)
(* new directory when it dies.                                             *)
(***************************************************************************)
EXTENDS Naturals

CONSTANTS
  Path, Content,
  NoFile,        \* there is no file at a path
  Protected,     \* metadata.json and README.md
  MaxVersion, MaxEdits, MaxFails,
  EditsInClone   \* whether the tree is edited while it is being cloned

ASSUME DatasetAssumption ==
  MaxVersion \in Nat \ {0} /\ NoFile \notin Content

VARIABLES
  dsVersion,   \* number of the newest version
  dsOpen,      \* the newest version is a draft
  dsFiles,     \* dsFiles[v][p]: the content at p in version v
  tree,        \* the clone's files
  manifest,    \* .agency/files.json
  localStatus, \* status in .agency/dataset.json; none without a workspace
  op,          \* the operation under way
  dsLate,      \* uploads whose sender has given up
  dsEdits, dsFails,
  astray,      \* history: paths at which draft and manifest may differ
  pushGap,     \* history: paths at which the draft is not what was pushed
  script,      \* next step of the example; free: the clone is used freely
  scriptFile   \* the file that the example adds in this run

dsVars == <<dsVersion, dsOpen, dsFiles, tree, manifest, localStatus, op,
            dsLate, dsEdits, dsFails, astray, pushGap, script, scriptFile>>
dsServer == <<dsVersion, dsOpen, dsFiles>>
clone == <<tree, manifest, localStatus>>
dsRest == <<dsEdits, dsFails, scriptFile>>

NoFiles == [p \in Path |-> NoFile]
IdleOp == [at |-> "idle", version |-> 0, uploads |-> {}, deletes |-> {},
           entries |-> NoFiles, status |-> "none", stray |-> {}]
Latest == IF dsOpen THEN dsVersion - 1 ELSE dsVersion
LatePaths == {late[1] : late \in dsLate}
StatusOf(v) == IF dsOpen /\ v = dsVersion THEN "draft" ELSE "published"

DatasetInit ==
  /\ dsVersion = 1 /\ dsOpen = FALSE
  /\ \E f \in [Path -> Content \cup {NoFile}] :
       dsFiles = [v \in 1 .. MaxVersion |-> IF v = 1 THEN f ELSE NoFiles]
  /\ tree = NoFiles /\ manifest = NoFiles /\ localStatus = "none"
  /\ op = IdleOp /\ dsLate = {} /\ dsEdits = 0 /\ dsFails = 0
  /\ astray = {} /\ pushGap = {}
  /\ script \in {"free", "clone"} /\ scriptFile = NoFile

----------------------------------------------------------------------------
\* The example's assertions, at the step where it makes them; it goes on to
\* the next step only when they hold.
Script == [clone |-> "draft", draft |-> "add", push |-> "repush",
           repush |-> "unlink", remove |-> "publish", publish |-> "refuse",
           refuse |-> "ok"]
Step(names, asserted) ==
  /\ script \in names \cup {"free"}
  /\ script' = CASE script = "free" -> "free"
                 [] script # "free" /\ asserted -> Script[script]
                 [] OTHER -> "failed"
MayCall(names) == script \in names \cup {"free"} /\ op = IdleOp

\* clone_dataset: get, then filesystem_list; "last" is of any status.
CloneStart(asked) ==
  LET v == IF asked = "last" THEN dsVersion ELSE Latest
  IN  /\ MayCall({"clone"}) /\ (script = "clone" => asked = "last")
      /\ op' = [IdleOp EXCEPT !.at = "clone", !.version = v,
                  !.uploads = {p \in Path : dsFiles[v][p] # NoFile},
                  !.status = StatusOf(v),
                  !.stray = LatePaths \cup
                    {p \in Path : dsFiles[v][p] # dsFiles[dsVersion][p]}]
      /\ pushGap' = {}
      /\ UNCHANGED <<dsServer, clone, dsLate, dsRest, astray, script>>

\* filesystem_signed_url and _download_file.
CloneFile(p) ==
  /\ op.at = "clone" /\ p \in op.uploads
  /\ tree' = [tree EXCEPT ![p] = dsFiles[op.version][p]]
  /\ op' = [op EXCEPT !.uploads = @ \ {p}, !.deletes = @ \cup {p}]
  /\ UNCHANGED <<dsServer, manifest, localStatus, dsLate, dsRest, astray,
                 pushGap, script>>

\* _write_workspace: the manifest hashes the downloaded files as they are now.
CloneWrites ==
  /\ op.at = "clone" /\ op.uploads = {}
  /\ manifest' = [p \in Path |-> IF p \in op.deletes THEN tree[p]
                                 ELSE NoFile]
  /\ localStatus' = op.status
  /\ astray' = op.stray
  /\ op' = IdleOp
  /\ script' = CASE script = "free" -> "free"
                 [] script # "free" /\ localStatus' = "draft" -> "add"
                 [] OTHER -> "draft"
  /\ UNCHANGED <<dsServer, tree, dsLate, dsRest, pushGap>>

\* draft: POST; the server copies the newest version of any status.
OpenDraft ==
  /\ ~dsOpen /\ dsVersion < MaxVersion
  /\ dsVersion' = dsVersion + 1 /\ dsOpen' = TRUE
  /\ dsFiles' = [dsFiles EXCEPT ![dsVersion + 1] = dsFiles[dsVersion]]

Draft ==
  /\ MayCall({"draft"}) /\ OpenDraft
  /\ op' = [IdleOp EXCEPT !.at = "drafted"]
  /\ UNCHANGED <<clone, dsLate, dsRest, astray, pushGap, script>>

\* draft and publish patch .agency/dataset.json after the server's answer.
UpdateLocal ==
  /\ op.at \in {"drafted", "frozen"}
  /\ localStatus' = CASE localStatus = "none" -> "none"
                      [] localStatus # "none" /\ op.at = "drafted" -> "draft"
                      [] OTHER -> "published"
  /\ op' = IdleOp
  /\ Step({"draft", "publish"}, op.at = "frozen" => ~dsOpen)
  /\ UNCHANGED <<dsServer, tree, manifest, dsLate, dsRest, astray, pushGap>>

\* publish: status 0 -> 1 in place.
Publish ==
  /\ MayCall({"publish"}) /\ dsOpen
  /\ dsOpen' = FALSE
  /\ op' = [IdleOp EXCEPT !.at = "frozen"]
  /\ UNCHANGED <<dsVersion, dsFiles, clone, dsLate, dsRest, astray, pushGap,
                 script>>

\* draft is answered 409 and publish 400; push raises before its first call.
Refuses(step) ==
  /\ MayCall({step})
  /\ CASE step = "draft"   -> dsOpen
       [] step = "publish" -> ~dsOpen
       [] OTHER            -> localStatus # "draft"
  /\ Step({step}, step = "refuse")
  /\ UNCHANGED <<dsServer, clone, op, dsLate, dsRest, astray, pushGap>>

----------------------------------------------------------------------------
\* The changes of the tree since the last sync; mutant: only new files.
UploadsOfNew == {p \in Path : tree[p] # NoFile /\ manifest[p] = NoFile}
Uploads == {p \in Path : tree[p] # NoFile /\ manifest[p] # tree[p]}
Deletes == {p \in Path : tree[p] = NoFile /\ manifest[p] # NoFile}
Pushing == {"push", "repush", "remove"}

\* What the example asserts of a push.
PushAsserted(ups, dels) ==
  CASE script = "push"   -> ups # {} /\ dels = {}
    [] script = "repush" -> ups \cup dels = {}
    [] script = "remove" -> ups = {} /\ dels # {}
    [] OTHER             -> TRUE

\* push: the local checks; without a change it returns without a call.
PushStart ==
  /\ MayCall(Pushing) /\ localStatus = "draft"
  /\ IF Uploads \cup Deletes = {}
     THEN /\ Step(Pushing, PushAsserted({}, {})) /\ UNCHANGED op
          /\ pushGap' =
               {p \in Path : dsOpen /\ dsFiles[dsVersion][p] # tree[p]}
     ELSE /\ Deletes \cap Protected = {}
          /\ op' = [IdleOp EXCEPT !.at = "require", !.uploads = Uploads,
                      !.deletes = Deletes, !.entries = tree,
                      !.stray = LatePaths]
          /\ pushGap' = {} /\ UNCHANGED script
  /\ UNCHANGED <<dsServer, clone, dsLate, dsRest, astray>>

\* _require_server_draft; without a draft the push raises.
RequireDraft ==
  /\ op.at = "require"
  /\ op' = IF dsOpen THEN [op EXCEPT !.at = "send", !.version = dsVersion]
           ELSE IdleOp
  /\ IF dsOpen THEN UNCHANGED script ELSE Step(Pushing, FALSE)
  /\ UNCHANGED <<dsServer, clone, dsLate, dsRest, astray, pushGap>>

\* _upload_file: the server checks the file it receives against the checksum.
Upload(p) ==
  /\ op.at = "send" /\ p \in op.uploads
  /\ dsOpen /\ tree[p] = op.entries[p]
  /\ dsFiles' = [dsFiles EXCEPT ![dsVersion][p] = tree[p]]
  /\ op' = [op EXCEPT !.uploads = @ \ {p}]
  /\ astray' = astray \cup {p}
  /\ UNCHANGED <<dsVersion, dsOpen, clone, dsLate, dsRest, pushGap, script>>

\* _delete_path: "not found" counts as deleted.
DeletePath(p) ==
  /\ op.at = "send" /\ op.uploads = {} /\ p \in op.deletes /\ dsOpen
  /\ dsFiles' = [dsFiles EXCEPT ![dsVersion][p] = NoFile]
  /\ op' = [op EXCEPT !.deletes = @ \ {p}]
  /\ astray' = astray \cup {p}
  /\ UNCHANGED <<dsVersion, dsOpen, clone, dsLate, dsRest, pushGap, script>>

\* The paths that this push has sent: the manifest is still the old one.
Sent == {p \in Path : op.entries[p] # manifest[p]}

\* Everything was sent: the manifest is rewritten from the hashes taken first;
\* mutant: it is not.
SameManifest == manifest
NewManifest == op.entries

PushReturns ==
  /\ op.at = "send" /\ op.uploads \cup op.deletes = {}
  /\ manifest' = NewManifest
  /\ op' = IdleOp
  /\ astray' = (astray \ Sent) \cup op.stray
  /\ pushGap' = {p \in Path : dsOpen /\ dsFiles[dsVersion][p] # op.entries[p]}
  /\ Step(Pushing, PushAsserted({p \in Sent : op.entries[p] # NoFile},
                                {p \in Sent : op.entries[p] = NoFile}))
  /\ UNCHANGED <<dsServer, tree, localStatus, dsLate, dsRest>>

----------------------------------------------------------------------------
\* The user, or steps 3 and 6 of the example: a file of its own is added,
\* then removed.
Edit(p, c) ==
  /\ script = "free" /\ dsEdits < MaxEdits /\ tree[p] # c
  /\ op.at = "clone" => EditsInClone
  /\ tree' = [tree EXCEPT ![p] = c]
  /\ dsEdits' = dsEdits + 1
  /\ op' = IF op.at = "clone" THEN [op EXCEPT !.stray = @ \cup {p}] ELSE op
  /\ pushGap' = {}
  /\ UNCHANGED <<dsServer, manifest, localStatus, dsLate, dsFails, astray,
                 script, scriptFile>>

ScriptEdits(p) ==
  /\ op = IdleOp
  /\ \/ /\ script = "add" /\ dsFiles[dsVersion][p] = NoFile
        /\ p \notin LatePaths
        /\ \E c \in Content : tree' = [tree EXCEPT ![p] = c]
        /\ script' = "push" /\ scriptFile' = p
     \/ /\ script = "unlink" /\ p = scriptFile
        /\ tree' = [tree EXCEPT ![p] = NoFile]
        /\ script' = "remove" /\ UNCHANGED scriptFile
  /\ UNCHANGED <<dsServer, manifest, localStatus, op, dsLate, dsEdits, dsFails,
                 astray, pushGap>>

\* A request fails, with or without its effect, or the process dies.  An
\* upload may be served after its sender has given up.
Fails ==
  /\ dsFails < MaxFails /\ op # IdleOp
  /\ dsFails' = dsFails + 1
  /\ op' = IdleOp
  /\ \/ UNCHANGED dsLate
     \/ \E p \in op.uploads : /\ op.at = "send"
                              /\ dsLate' = dsLate \cup {<<p, op.entries[p]>>}
  /\ astray' = astray \cup LatePaths'
  /\ IF script = "free" THEN UNCHANGED <<clone, script>>
     ELSE /\ tree' = NoFiles /\ manifest' = NoFiles /\ localStatus' = "none"
          /\ script' = "clone"
  /\ UNCHANGED <<dsServer, dsEdits, pushGap, scriptFile>>

LateUpload(p, c) ==
  /\ <<p, c>> \in dsLate /\ dsOpen
  /\ dsLate' = dsLate \ {<<p, c>>}
  /\ dsFiles' = [dsFiles EXCEPT ![dsVersion][p] = c]
  /\ pushGap' = {}
  /\ UNCHANGED <<dsVersion, dsOpen, clone, op, dsRest, astray, script>>

\* Other clients; they leave the example's dataset alone.
Others ==
  /\ script = "free"
  /\ \/ OpenDraft
     \/ dsOpen /\ dsOpen' = FALSE /\ UNCHANGED <<dsVersion, dsFiles>>
  /\ pushGap' = {}
  /\ UNCHANGED <<clone, op, dsLate, dsRest, astray, script>>

DatasetNext ==
  \/ CloneStart("last") \/ CloneStart("latest")
  \/ \E p \in Path : CloneFile(p) \/ Upload(p) \/ DeletePath(p)
                       \/ ScriptEdits(p)
  \/ CloneWrites \/ Draft \/ UpdateLocal \/ Publish
  \/ \E step \in {"draft", "publish", "refuse"} : Refuses(step)
  \/ PushStart \/ RequireDraft \/ PushReturns \/ Fails \/ Others
  \/ \E p \in Path, c \in Content \cup {NoFile} : Edit(p, c)
  \/ \E p \in Path, c \in Content : LateUpload(p, c)

DatasetSpec == DatasetInit /\ [][DatasetNext]_dsVars

----------------------------------------------------------------------------
\* When push returns, the draft and the tree it hashed differ only where an
\* earlier push stopped after it had sent a file, where an upload is or was
\* late, where the file was edited between its download and its hash, or
\* where the clone was older than the newest version: never at a path that
\* this push or a push since has sent.
PushGapIsExplained == pushGap \subseteq astray

\* "a failed push is safe to re-run" (datasets_client.py:302): when the push
\* after it returns, the draft holds the tree.
PushedTreeIsTheDraft == pushGap = {}

\* None of the example's assertions can fail, however often an earlier run of
\* it died and whatever draft that run left behind.
ScriptNeverFails == script # "failed"
==============================================================================
