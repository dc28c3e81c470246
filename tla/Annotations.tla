----------------------------- MODULE Annotations -----------------------------
(***************************************************************************)
(* Publishing graphs as annotation jobs (delegates/annotations_client.py). *)
(*                                                                         *)
(* A publisher works through a plan.  "seed" finds or creates the job      *)
(* specification; "push" is push_graph: resolve a workflow, create a       *)
(* batch, bind, upload, read back; "read" reads what was pushed again;     *)
(* "probe" uploads a graph without a target vertex, which the server       *)
(* refuses.  The example (examples/quick_annotations.py) is the long plan, *)
(* with its assertions on batches and jobs and its teardown; what its      *)
(* step 6 reads inside jobs, transitions, graph and members is left out.   *)
(* Every call may raise with or without its effect: a POST is sent once,   *)
(* and a 2xx without an id raises too (_command_id).                       *)
(***************************************************************************)
EXTENDS Naturals, Sequences

CONSTANTS
  Publisher,
  MaxRaises  \* calls that raise, at most

Batch == 1 .. 3
Plans ==
  { <<"push">>, <<"seed", "push", "read", "push", "read", "probe">> }

VARIABLES
  batches,    \* AnnotationBatch: status, binding, jobs and their checklists
  specs,      \* the specifications of one code, by creator, oldest first
  workflows,  \* old (no such route: 404), none bindable, or published
  pub,        \* each publisher
  raises

annVars == <<batches, specs, workflows, pub, raises>>
annServer == <<batches, specs, workflows>>

Id(p, n) == <<p, n>>
NoBatch == [status |-> "none", bound |-> FALSE, jobs |-> FALSE,
            checklist |-> FALSE]

AnnInit ==
  /\ batches = [b \in Publisher \X Batch |-> NoBatch]
  /\ specs = <<>>
  /\ workflows \in {"old", "none", "published"}
  /\ \E plan \in [Publisher -> Plans] :
       pub = [p \in Publisher |->
                [leg |-> "next", plan |-> plan[p], batch |-> 0, binds |-> TRUE,
                 created |-> {}, unarchived |-> {}, end |-> "ok",
                 seeded |-> FALSE]]
  /\ raises = 0

----------------------------------------------------------------------------
Set(p, r) == pub' = [pub EXCEPT ![p] = r]
GoTo(p, leg) == Set(p, [pub[p] EXCEPT !.leg = leg])
\* The plan is given up: refused by a status or by the client, or lost.
Ends(p, why) == Set(p, [pub[p] EXCEPT !.leg = "teardown", !.end = why])
At(p, leg) == pub[p].leg = leg
Current(p) == batches[Id(p, pub[p].batch)]
SetBatch(p, r) == batches' = [batches EXCEPT ![Id(p, pub[p].batch)] = r]
Pushes(p) == Head(pub[p].plan) = "push"

\* The call answers, and its caller goes on; or it raises after its effect;
\* mutant: it is sent again.
AnsweredResent(p, goesOn) ==
  \/ goesOn /\ UNCHANGED raises
  \/ raises < MaxRaises /\ raises' = raises + 1 /\ UNCHANGED pub
Answered(p, goesOn) ==
  \/ goesOn /\ UNCHANGED raises
  \/ /\ raises < MaxRaises /\ raises' = raises + 1
     /\ Ends(p, "lost")

\* A call raises without an effect.
CallRaises(p) ==
  /\ pub[p].leg \notin {"next", "teardown", "ended"}
  /\ raises < MaxRaises /\ raises' = raises + 1
  /\ Ends(p, "lost")
  /\ UNCHANGED annServer

NextItem(p) ==
  /\ At(p, "next")
  /\ IF pub[p].plan = <<>> THEN GoTo(p, "teardown")
     ELSE GoTo(p, CASE Head(pub[p].plan) = "seed" -> "getSpec"
                    [] Head(pub[p].plan) = "push" -> "resolve"
                    [] Head(pub[p].plan) = "read" -> "read"
                    [] OTHER -> "create")
  /\ UNCHANGED <<annServer, raises>>

\* Step 1 of the example: get_spec, and on 404 create_spec, get_spec; mutant:
\* the 404 is ignored.
GetSpecIgnored(p) ==
  /\ At(p, "getSpec") /\ GoTo(p, "listWorkflows")
  /\ UNCHANGED <<annServer, raises>>
GetSpec(p) ==
  /\ At(p, "getSpec")
  /\ GoTo(p, IF specs = <<>> THEN "createSpec" ELSE "listWorkflows")
  /\ UNCHANGED <<annServer, raises>>

CreateSpec(p) ==
  /\ At(p, "createSpec")
  /\ specs' = Append(specs, p)
  /\ Answered(p, GoTo(p, "confirmSpec"))
  /\ UNCHANGED <<batches, workflows>>

\* get_spec takes the first match; nothing keeps the code unique.
ConfirmSpec(p) ==
  /\ At(p, "confirmSpec")
  /\ IF specs[1] = p THEN GoTo(p, "listWorkflows") ELSE Ends(p, "asserted")
  /\ UNCHANGED <<annServer, raises>>

\* Step 1c of the example.
ListWorkflows(p) ==
  /\ At(p, "listWorkflows")
  /\ IF workflows = "published"
     THEN Set(p, [pub[p] EXCEPT !.leg = "next", !.plan = Tail(@),
                                !.seeded = TRUE])
     ELSE Ends(p, "refused")
  /\ UNCHANGED <<annServer, raises>>

----------------------------------------------------------------------------
\* _resolve_workflow_id: before anything is created.
ResolveWorkflow(p) ==
  /\ At(p, "resolve")
  /\ IF workflows = "none" THEN Ends(p, "unbindable")
     ELSE Set(p, [pub[p] EXCEPT !.leg = "create",
                                !.binds = workflows = "published"])
  /\ UNCHANGED <<annServer, raises>>

\* create_batch; the example remembers the batch of its probe at once, and
\* that of a push when the push returns.
CreateBatch(p) ==
  LET b == pub[p].batch + 1
  IN  /\ At(p, "create")
      /\ batches' = [batches EXCEPT ![Id(p, b)] =
                       [NoBatch EXCEPT !.status = "DRAFT"]]
      /\ Answered(p, Set(p, [pub[p] EXCEPT
           !.leg = IF pub[p].binds THEN "bind" ELSE "upload", !.batch = b,
           !.created = IF Pushes(p) THEN @ ELSE @ \cup {b}]))
      /\ UNCHANGED <<specs, workflows>>

\* bind_workflow: the server resolves the published version.
BindWorkflow(p) ==
  /\ At(p, "bind")
  /\ IF workflows = "published"
     THEN /\ SetBatch(p, [Current(p) EXCEPT !.bound = TRUE])
          /\ Answered(p, GoTo(p, "upload"))
     ELSE Ends(p, "status") /\ UNCHANGED <<batches, raises>>
  /\ UNCHANGED <<specs, workflows>>

\* upload_graph: only a DRAFT batch, only with a binding where the server has
\* workflows, only a graph with a target vertex.
MayUpload(p) ==
  /\ Current(p).status = "DRAFT"
  /\ Current(p).bound \/ workflows = "old"
  /\ Pushes(p)

UploadGraph(p) ==
  /\ At(p, "upload")
  /\ IF MayUpload(p)
     THEN /\ SetBatch(p, [Current(p) EXCEPT !.status = "ACTIVE",
                            !.jobs = TRUE, !.checklist = specs # <<>>])
          /\ Answered(p, GoTo(p, "readBack"))
     ELSE /\ IF Pushes(p) THEN Ends(p, "status") ELSE GoTo(p, "readBack")
          /\ UNCHANGED <<batches, raises>>
  /\ UNCHANGED <<specs, workflows>>

\* The example's list of batches to archive; mutant: without the pushed ones.
RememberedProbe(p) == pub[p].created
Remembered(p) == pub[p].created \cup {pub[p].batch}

\* get_batch: PushGraphResult; the example remembers the batch, then asserts
\* its status and its jobs.
GetBatch(p) ==
  /\ At(p, "readBack")
  /\ LET read == [pub[p] EXCEPT !.created = Remembered(p)]
     IN IF (Current(p).status = "ACTIVE" /\ Current(p).jobs) = Pushes(p)
        THEN Set(p, [read EXCEPT !.leg = "next", !.plan = Tail(@)])
        ELSE Set(p, [read EXCEPT !.leg = "teardown", !.end = "asserted"])
  /\ UNCHANGED <<annServer, raises>>

\* Steps 3, 5 and 6: every batch pushed so far is there, ACTIVE, with its jobs.
ReadAgain(p) ==
  /\ At(p, "read")
  /\ IF \A b \in pub[p].created :
          batches[Id(p, b)].status = "ACTIVE" /\ batches[Id(p, b)].jobs
     THEN Set(p, [pub[p] EXCEPT !.leg = "next", !.plan = Tail(@)])
     ELSE Ends(p, "asserted")
  /\ UNCHANGED <<annServer, raises>>

----------------------------------------------------------------------------
Archive(p, b) == batches' = [batches EXCEPT ![Id(p, b)].status = "ARCHIVED"]

TeardownEnds(p) ==
  /\ At(p, "teardown") /\ pub[p].created = {} /\ GoTo(p, "ended")
  /\ UNCHANGED <<annServer, raises>>

\* _archive_batch, for the oldest batch left: nobody looks at the status, so a
\* batch that the server refuses to archive is passed over.  An exception ends
\* the teardown, whether the batch was archived or not.
ArchiveBatch(p) ==
  /\ At(p, "teardown")
  /\ \E b \in pub[p].created :
       /\ \A c \in pub[p].created : b <= c
       /\ \/ /\ Archive(p, b) /\ UNCHANGED raises
             /\ Set(p, [pub[p] EXCEPT !.created = @ \ {b}])
          \/ /\ UNCHANGED <<batches, raises>>
             /\ Set(p, [pub[p] EXCEPT !.created = @ \ {b},
                                      !.unarchived = @ \cup {b}])
          \/ /\ raises < MaxRaises /\ raises' = raises + 1
             /\ Archive(p, b) \/ UNCHANGED batches
             /\ Set(p, [pub[p] EXCEPT !.leg = "ended", !.end = "lost"])
  /\ UNCHANGED <<specs, workflows>>

\* The organisation publishes its workflow, or withdraws it.
WorkflowChanges ==
  /\ \E s \in {"none", "published"} \ {workflows} :
       workflows # "old" /\ workflows' = s
  /\ UNCHANGED <<batches, specs, pub, raises>>

----------------------------------------------------------------------------
AnnNext ==
  \/ \E p \in Publisher :
       \/ NextItem(p) \/ GetSpec(p) \/ CreateSpec(p) \/ ConfirmSpec(p)
       \/ ListWorkflows(p) \/ ResolveWorkflow(p) \/ CreateBatch(p)
       \/ BindWorkflow(p) \/ UploadGraph(p) \/ GetBatch(p) \/ ReadAgain(p)
       \/ TeardownEnds(p) \/ ArchiveBatch(p) \/ CallRaises(p)
  \/ WorkflowChanges

AnnSpec == AnnInit /\ [][AnnNext]_annVars

----------------------------------------------------------------------------
\* A push that is refused leaves nothing that holds jobs: without a bindable
\* workflow it leaves no draft behind, and after a status from bind or upload
\* the batch is still an empty DRAFT.
RefusedPushHoldsNoJobs ==
  \A p \in Publisher :
    /\ pub[p].end = "unbindable" =>
         \A b \in Batch : batches[Id(p, b)].status # "DRAFT"
    /\ pub[p].end = "status" =>
         /\ Current(p).status = "DRAFT" \/ ~Pushes(p)
         /\ ~Current(p).jobs

\* Jobs that a publisher makes after it found or created the specification
\* have a checklist, whoever else creates one meanwhile.
SeededJobsHaveChecklists ==
  \A p \in Publisher, b \in Batch :
    pub[p].seeded /\ batches[Id(p, b)].jobs => batches[Id(p, b)].checklist

\* When the example has ended, a batch of its own is still ACTIVE only where
\* the server refused to archive it, which nobody notices, or where a call
\* raised: the batch of the push that was running, or those that the teardown
\* did not get to.  And its assertions fail only when another publisher
\* created the same specification.
ResidueIsExplained ==
  \A p \in Publisher :
    /\ pub[p].leg = "ended" =>
         \A b \in Batch : batches[Id(p, b)].status = "ACTIVE" =>
           \/ b \in pub[p].unarchived
           \/ pub[p].end = "lost" /\ b \in pub[p].created \cup {pub[p].batch}
    /\ pub[p].end = "asserted" => Len(specs) > 1
==============================================================================
