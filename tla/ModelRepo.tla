------------------------------- MODULE ModelRepo -------------------------------
(* Model profiles (model/model.go, model/repository.go) and their repositories.  *)
EXTENDS ProviderCatalog

CONSTANTS ModelSpecs,       \* the provider specifications of the model catalog
          ModelConfigs      \* the configurations that are submitted, by name

ModelCatalog == The(NewModelCatalog(ModelSpecs))

NoModel == [st |-> "none", ver |-> 0, conf |-> Nothing, digest |-> Nothing]

ModelDigest(conf) == <<"sha256", conf>>

NewModelProfile(o) ==
  Only(o.to \in {"active", "suspended"},
       {[st |-> o.to, ver |-> 1, conf |-> c, digest |-> ModelDigest(c)] :
          c \in NormalizeConfiguration(ModelConfigs[o.raw], ModelCatalog)})

ValidModel(p) ==
  /\ NormalizeConfiguration(p.conf, ModelCatalog) = {p.conf}
  /\ p.digest = ModelDigest(p.conf)

ModelCanTransitionTo(from, to) == <<from, to>> \in StatusMoves

PrepareModelCreated(o) == {p \in NewModelProfile(o) : ValidModel(p)}

PrepareModelConfiguration(p, o) ==
  Only(Mutable(p, o.ver) /\ ValidModel(p),
       {q \in {[p EXCEPT !.conf = c, !.digest = ModelDigest(c), !.ver = @ + 1] :
                 c \in NormalizeConfiguration(ModelConfigs[o.raw], ModelCatalog)} : ValidModel(q)})

\* Mutant: a status change keeps the version.
PrepareModelStatusSameVersion(p, o) ==
  Only(Mutable(p, o.ver) /\ ValidModel(p),
       {q \in {[p EXCEPT !.st = o.to]} : ModelCanTransitionTo(p.st, o.to) /\ ValidModel(q)})

PrepareModelStatus(p, o) ==
  Only(Mutable(p, o.ver) /\ ValidModel(p),
       {q \in {Restated(p, o.to)} : ModelCanTransitionTo(p.st, o.to) /\ ValidModel(q)})

-----------------------------------------------------------------------------
(* model/inmemory, model/postgres, model/mysql.  The SQL repositories lock the   *)
(* profile, write it if its version is still the expected one, and read it back. *)

MemModelLock == Own("model")

MemModelCreate(v, o) == Put(v, "model", Only(v["model"].st = "none", PrepareModelCreated(o)))

\* Mutant: the digest of the old configuration is kept.
MemModelConfigOldDigest(v, o) ==
  Put(v, "model", {[p EXCEPT !.digest = v["model"].digest] : p \in PrepareModelConfiguration(v["model"], o)})

MemModelConfig(v, o) == Put(v, "model", PrepareModelConfiguration(v["model"], o))

MemModelStatus(v, o) == Put(v, "model", PrepareModelStatus(v["model"], o))

PgModelCreate(v, o) == Put(v, "model", Only(v["model"].st = "none", PrepareModelCreated(o)))

PgModelConfig(v, o) == Put(v, "model", PrepareModelConfiguration(v["model"], o))

PgModelStatus(v, o) == Put(v, "model", PrepareModelStatus(v["model"], o))

PgModelScans(p) == ValidModel(p)

MyModelCreate(v, o) == Put(v, "model", Only(v["model"].st = "none", PrepareModelCreated(o)))

MyModelConfig(v, o) == Put(v, "model", PrepareModelConfiguration(v["model"], o))

MyModelStatus(v, o) == Put(v, "model", PrepareModelStatus(v["model"], o))

MyModelScans(p) == ValidModel(p)

=============================================================================
