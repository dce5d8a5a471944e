------------------------------- MODULE Training -------------------------------
(***************************************************************************)
(* From a dataset to a registered model version: splits of a dataset       *)
(* (apps/api datasets.service.ts, split.util.ts), the training script that *)
(* publishes a run (vision_service/training/train.py) and the rows it      *)
(* leaves (training-runs.service.ts, model-registry.service.ts).           *)
(*                                                                         *)
(* Rows are only ever inserted; the objects they name are in buckets whose *)
(* keys are made of the dataset and the seed, or of the dataset alone:     *)
(* every export of the trainer has the same file name.                     *)
(*                                                                         *)
(* A manifest is the list of items in it; an artifact is the number of the *)
(* training that exported it.  Ratios are percentages.  Left out: images   *)
(* and weights, scores, and which version of a model is in production.     *)
(***************************************************************************)
EXTENDS Integers, Sequences, FiniteSets, Functions, SequencesExt

CONSTANTS
  Datasets,     \* ids of datasets
  ItemLists,    \* lists of items an operator may send
  Ratios,       \* ratios an operator may send
  Seeds,        \* seeds an operator may send
  Draws,        \* per seed, the numbers mulberry32 draws ...
  Resolution,   \* ... as multiples of 1/Resolution
  TestSets,     \* per test set that may be trained against, its labels
  Callers,      \* POST /datasets/:id/splits under way at once
  Scripts,      \* training scripts running at once
  MaxSplits,    \* bound: splits generated
  MaxTrainings, \* bound: trainings
  MaxFailures   \* bound: uploads, requests and processes that fail

VARIABLES
  datasets,   \* datasets table: the ids in it
  manifests,  \* datasets bucket: per dataset, seed and part, its items
  splits,     \* dataset_splits table, each row with the lists its call produced
  call,       \* per caller, the split being generated
  artifacts,  \* models bucket: per dataset, the training its object is of
  runs,       \* training_runs table
  models,     \* model_versions table
  script,     \* per script, where it is
  trainings,  \* history: trainings begun
  failures

splitVars == <<datasets, manifests, splits, call>>
trainingVars == <<artifacts, runs, models, script, trainings>>
vars == <<splitVars, trainingVars, failures>>

Fail == failures < MaxFailures /\ failures' = failures + 1

-----------------------------------------------------------------------------
(* generateDeterministicSplit. *)

Parts == {"train", "validation", "test"}

\* No items, an item twice, or ratios that do not add up: a 400.
IsSplittable(items, ratios) ==
  /\ items # <<>> /\ IsInjective(items)
  /\ ratios \in [Parts -> 0 .. 100]
  /\ ratios.train + ratios.validation + ratios.test = 100

Swap(s, i, j) == [s EXCEPT ![i] = s[j], ![j] = s[i]]

\* Fisher-Yates from the last position down, with one draw for each.
Shuffled(items, seed) ==
  FoldLeft(LAMBDA s, i : Swap(s, i, 1 + (Draws[seed][Len(items) + 1 - i] * i) \div Resolution),
           items, [k \in 1 .. Len(items) - 1 |-> Len(items) + 1 - k])

\* Rounded down; what is left is for testing.
Count(items, ratios, part) == (Len(items) * ratios[part]) \div 100

SplitOf(items, ratios, seed) ==
  LET s == Shuffled(items, seed)
      t == Count(items, ratios, "train")
      v == t + Count(items, ratios, "validation")
  IN  [train |-> SubSeq(s, 1, t), validation |-> SubSeq(s, t + 1, v),
       test |-> SubSeq(s, v + 1, Len(s))]

-----------------------------------------------------------------------------
NoObject == <<"none">>
NoLists == [part \in Parts |-> <<>>]
NoCall == [at |-> "idle", dataset |-> "none", seed |-> 0, lists |-> NoLists, left |-> {}]
NoScript == [at |-> "idle", dataset |-> "none", split |-> 0, training |-> 0, labels |-> {},
             run |-> 0]

Init ==
  /\ datasets = {}
  /\ manifests = [o \in Datasets \X Seeds \X Parts |-> NoObject]
  /\ splits = <<>> /\ call = [c \in Callers |-> NoCall]
  /\ artifacts = [d \in Datasets |-> 0]
  /\ runs = <<>> /\ models = <<>>
  /\ script = [p \in Scripts |-> NoScript] /\ trainings = 0
  /\ failures = 0

-----------------------------------------------------------------------------
(* DatasetsService. *)

\* With its provenance; name and version are unique.
Register(d) ==
  /\ d \notin datasets
  /\ datasets' = datasets \cup {d}
  /\ UNCHANGED <<manifests, splits, call, trainingVars, failures>>

Generating == {c \in Callers : call[c].at = "uploading"}

\* The lists are computed and the three uploads begin.
GenerateSplit(c, d, items, ratios, seed) ==
  /\ call[c].at = "idle" /\ Len(splits) + Cardinality(Generating) < MaxSplits
  /\ d \in datasets /\ IsSplittable(items, ratios)
  /\ call' = [call EXCEPT ![c] =
       [at |-> "uploading", dataset |-> d, seed |-> seed,
        lists |-> SplitOf(items, ratios, seed), left |-> Parts]]
  /\ UNCHANGED <<datasets, manifests, splits, trainingVars, failures>>

\* One of the uploads, also of a call that has been rejected meanwhile.
UploadText(c, part) ==
  /\ part \in call[c].left
  /\ manifests' = [manifests EXCEPT ![call[c].dataset, call[c].seed, part] = call[c].lists[part]]
  /\ call' = [call EXCEPT ![c].left = @ \ {part}]
  /\ UNCHANGED <<datasets, splits, trainingVars, failures>>

\* One fails: Promise.all rejects, and does not stop the others.
UploadTextFails(c, part) ==
  /\ part \in call[c].left /\ Fail
  /\ call' = [call EXCEPT ![c].left = @ \ {part}, ![c].at = "rejected"]
  /\ UNCHANGED <<datasets, manifests, splits, trainingVars>>

\* All are done: insertSplit.
InsertSplit(c) ==
  /\ call[c].at = "uploading" /\ call[c].left = {}
  /\ splits' = Append(splits, [dataset |-> call[c].dataset, seed |-> call[c].seed,
                               lists |-> call[c].lists])
  /\ call' = [call EXCEPT ![c] = NoCall]
  /\ UNCHANGED <<datasets, manifests, trainingVars, failures>>

\* The insert fails, or the API process dies.
GenerateSplitFails(c) ==
  /\ call[c].at # "idle" /\ Fail
  /\ call' = [call EXCEPT ![c] = NoCall]
  /\ UNCHANGED <<datasets, manifests, splits, trainingVars>>

RejectedCallEnds(c) ==
  /\ call[c].at = "rejected" /\ call[c].left = {}
  /\ call' = [call EXCEPT ![c] = NoCall]
  /\ UNCHANGED <<datasets, manifests, splits, trainingVars, failures>>

-----------------------------------------------------------------------------
(* run_training.py and publish_training_run. *)

\* run_training_pipeline, on local directories.  Dataset and split are two
\* arguments that nothing compares.
Train(p, d, s, labels) ==
  /\ script[p].at = "idle" /\ trainings < MaxTrainings
  /\ trainings' = trainings + 1
  /\ script' = [script EXCEPT ![p] =
       [at |-> "trained", dataset |-> d, split |-> s, training |-> trainings',
        labels |-> labels, run |-> 0]]
  /\ UNCHANGED <<splitVars, artifacts, runs, models, failures>>

\* client.upload_from(onnx_path, "{dataset_id}/best.onnx").
UploadArtifact(p) ==
  /\ script[p].at = "trained"
  /\ artifacts' = [artifacts EXCEPT ![script[p].dataset] = script[p].training]
  /\ script' = [script EXCEPT ![p].at = "uploaded"]
  /\ UNCHANGED <<splitVars, runs, models, trainings, failures>>

\* evaluate: an entry for every label of the test set.
IsWellFormed(labels) == labels # {}

\* POST /training-runs of a COMPLETED run, recorded with its report.
ReportRun(p) ==
  /\ script[p].at = "uploaded" /\ IsWellFormed(script[p].labels)
  /\ runs' = Append(runs, [dataset |-> script[p].dataset, split |-> script[p].split,
                           training |-> script[p].training])
  /\ script' = [script EXCEPT ![p].at = "reported", ![p].run = Len(runs')]
  /\ UNCHANGED <<splitVars, artifacts, models, trainings, failures>>

\* A report without classes is a 400, which ends the script.
ReportRefused(p) ==
  /\ script[p].at = "uploaded" /\ ~IsWellFormed(script[p].labels)
  /\ script' = [script EXCEPT ![p] = NoScript]
  /\ UNCHANGED <<splitVars, artifacts, runs, models, trainings, failures>>

\* POST /models with the run and the object's key.
RegisterModel(p) ==
  /\ script[p].at = "reported"
  /\ models' = Append(models, [run |-> script[p].run, object |-> script[p].dataset])
  /\ script' = [script EXCEPT ![p] = NoScript]
  /\ UNCHANGED <<splitVars, artifacts, runs, trainings, failures>>

\* An upload or a request fails, or the script is stopped.
ScriptFails(p) ==
  /\ script[p].at # "idle" /\ Fail
  /\ script' = [script EXCEPT ![p] = NoScript]
  /\ UNCHANGED <<splitVars, artifacts, runs, models, trainings>>

\* The row is inserted and its answer lost.
AnswerLost(p) ==
  /\ Fail
  /\ \/ /\ script[p].at = "uploaded" /\ IsWellFormed(script[p].labels)
        /\ runs' = Append(runs, [dataset |-> script[p].dataset, split |-> script[p].split,
                                 training |-> script[p].training])
        /\ UNCHANGED models
     \/ /\ script[p].at = "reported"
        /\ models' = Append(models, [run |-> script[p].run, object |-> script[p].dataset])
        /\ UNCHANGED runs
  /\ script' = [script EXCEPT ![p] = NoScript]
  /\ UNCHANGED <<splitVars, artifacts, trainings>>

-----------------------------------------------------------------------------
SplitStep(c) ==
  \/ \E d \in Datasets, items \in ItemLists, ratios \in Ratios, seed \in Seeds :
       GenerateSplit(c, d, items, ratios, seed)
  \/ \E part \in Parts : UploadText(c, part) \/ UploadTextFails(c, part)
  \/ InsertSplit(c) \/ GenerateSplitFails(c) \/ RejectedCallEnds(c)

ScriptStep(p) ==
  \/ \E d \in datasets, s \in DOMAIN splits, labels \in TestSets : Train(p, d, s, labels)
  \/ UploadArtifact(p) \/ ReportRun(p) \/ ReportRefused(p) \/ RegisterModel(p)
  \/ ScriptFails(p) \/ AnswerLost(p)

Next ==
  \/ \E d \in Datasets : Register(d)
  \/ \E c \in Callers : SplitStep(c)
  \/ \E p \in Scripts : ScriptStep(p)

Spec == Init /\ [][Next]_vars

-----------------------------------------------------------------------------
\* REQ-8.3, datasets.service.ts: a split's manifests are the lists the call that
\* made its row produced, so that a later training fetches exactly these.
SplitIsReproducible ==
  \A i \in DOMAIN splits : \A part \in Parts :
    manifests[splits[i].dataset, splits[i].seed, part] = splits[i].lists[part]

\* REQ-8.9, model-registry.service.ts: the artifact a model version names is the
\* one the training run it is registered against produced.
ModelIsOfItsRun ==
  \A i \in DOMAIN models : artifacts[models[i].object] = runs[models[i].run].training

\* train.py: no run and no model version is recorded before there is an object
\* for it in the models bucket.
ArtifactExists ==
  /\ \A i \in DOMAIN runs : artifacts[runs[i].dataset] # 0
  /\ \A i \in DOMAIN models : artifacts[models[i].object] # 0
=============================================================================
