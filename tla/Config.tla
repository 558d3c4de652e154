---- MODULE Config ----
\* How a server gets its settings: a JSON document, the environment laid over
\* it, the command line laid over both (config/ConfigFile.cpp, Config.cpp). A
\* JSON value is a record [t, n, s]; the text of an environment variable and
\* an argument are model texts, and CfJson says what JSON makes of them.
EXTENDS Integers, Sequences, Sample
LOCAL INSTANCE SequencesExt
LOCAL INSTANCE FiniteSetsExt
LOCAL INSTANCE TLC

CONSTANTS CfKinds,        \* server key -> [type, min, max], max as the file checks it
          CfFlags,        \* flag -> server key
          CfJson,         \* text -> the value it parses to; CfBad for what is no JSON
          CfEnvs,         \* environments to try: sequences of [path, text]
          CfFiles,        \* server sections to try
          CfArgs,         \* arguments to try
          CfMaxArgs,
          CfNoLimit,      \* the largest count of the command line
          CfLetters, CfMaxWord

Num(n) == [t |-> "number", n |-> n, s |-> ""]
Str(s) == [t |-> "string", n |-> 0, s |-> s]
Flag(b) == [t |-> "bool", n |-> IF b THEN 1 ELSE 0, s |-> ""]
CfBad == [t |-> "bad", n |-> 0, s |-> ""]
CfNull == [t |-> "null", n |-> 0, s |-> ""]
Keys == DOMAIN CfKinds

\* server_keys(): what each setter accepts, and what it stores.
whole(v, min, max) == v.t = "number" /\ v.n \in min..max
accepts(key, v) == LET k == CfKinds[key]
  IN CASE k.type = "count" -> whole(v, k.min, k.max)
       [] k.type = "auto" -> v = Str("auto") \/ whole(v, k.min, k.max)
       [] k.type = "bool" -> v.t = "bool"
       [] k.type = "enum" -> v.t = "string" /\ v.s \in k.max
       [] OTHER -> v.t = "string"
stored(v) == IF v = Str("auto") THEN Num(0) ELSE v

\* apply_environment(): a short name only for a key of the server, a path for
\* anything; a section that is no object becomes one.
env_value(text) == IF CfJson[text].t \in {"bad", "null"} THEN Str(text) ELSE CfJson[text]

\* Mutant: a path does not create its section.
apply_environment_Skips(doc, env) ==
  FoldLeft(LAMBDA d, e :
    LET path == IF Len(e.path) = 1 THEN <<"server">> \o e.path ELSE e.path
        ours == Len(e.path) > 1 \/ e.path[1] \in Keys
    IN IF ~ours \/ "" \in {path[i] : i \in DOMAIN path} THEN d
       ELSE IF path[1] \in DOMAIN d /\ path[2] \in DOMAIN d[path[1]].of THEN d
       ELSE path[1] :> [t |-> "object", of |-> path[2] :> env_value(e.text)
                                               @@ (IF path[1] \in DOMAIN d THEN d[path[1]].of ELSE << >>)] @@ d, doc, env)

apply_environment(doc, env) ==
  FoldLeft(LAMBDA d, e :
    LET path == IF Len(e.path) = 1 THEN <<"server">> \o e.path ELSE e.path
        ours == Len(e.path) > 1 \/ e.path[1] \in Keys
    IN IF ~ours \/ "" \in {path[i] : i \in DOMAIN path} THEN d
       ELSE path[1] :> [t |-> "object", of |-> path[2] :> env_value(e.text)
                                               @@ (IF path[1] \in DOMAIN d THEN d[path[1]].of ELSE << >>)] @@ d, doc, env)

\* server_from_json(): an unknown key, or a value of the wrong kind, is an
\* error.
CfError == [ok |-> FALSE, of |-> << >>]
server_from_json(section) ==
  IF section.t = "null" THEN [ok |-> TRUE, of |-> << >>]
  ELSE IF section.t # "object" \/ \E k \in DOMAIN section.of : k \notin Keys \/ ~accepts(k, section.of[k]) THEN CfError
  ELSE [ok |-> TRUE, of |-> [k \in DOMAIN section.of |-> stored(section.of[k])]]

\* ServerConfig::parse(): numbers are checked, names of the two log settings are
\* not; a flag without its value is fatal, an argument nobody knows only if
\* strict.
flag_value(key, text) == LET k == CfKinds[key]
  IN CASE k.type = "count" -> IF whole(CfJson[text], k.min, k.max) THEN CfJson[text] ELSE CfBad
       [] k.type = "auto" -> IF text = "auto" THEN Num(0) ELSE IF whole(CfJson[text], k.min, CfNoLimit) THEN CfJson[text] ELSE CfBad
       [] OTHER -> Str(text)
RECURSIVE parse(_, _, _)
parse(args, cfg, strict) ==
  CASE args = << >> -> [ok |-> TRUE, of |-> cfg]
    [] args # << >> /\ args[1] \in DOMAIN CfFlags /\ CfKinds[CfFlags[args[1]]].type = "bool" ->
         parse(Tail(args), CfFlags[args[1]] :> Flag(TRUE) @@ cfg, strict)
    [] args # << >> /\ args[1] \in DOMAIN CfFlags /\ CfKinds[CfFlags[args[1]]].type # "bool" ->
         IF Len(args) = 1 \/ flag_value(CfFlags[args[1]], args[2]) = CfBad THEN CfError
         ELSE parse(SubSeq(args, 3, Len(args)), CfFlags[args[1]] :> flag_value(CfFlags[args[1]], args[2]) @@ cfg, strict)
    [] OTHER -> IF strict THEN CfError ELSE parse(Tail(args), cfg, strict)

\* Config::from_json(): the settings, and the document for the other sections.
from_json(doc, env, args, strict) ==
  LET over == apply_environment(doc, env)
      base == IF "server" \in DOMAIN over THEN server_from_json(over["server"]) ELSE [ok |-> TRUE, of |-> << >>]
  IN IF base.ok THEN parse(args, base.of, strict) ELSE CfError
section(doc, name) == IF name \in DOMAIN doc THEN doc[name].of ELSE << >>

\* closest_flag(): the edit distance, one row of the table at a time.
distance(a, b) ==
  LET row0 == [j \in 0..Len(b) |-> j]
      next(row, i) == FoldLeft(LAMBDA acc, j :
                        [row |-> [acc.row EXCEPT ![j] = Min({acc.row[j] + 1, acc.row[j - 1] + 1, acc.diagonal + (IF a[i] = b[j] THEN 0 ELSE 1)})],
                         diagonal |-> acc.row[j]],
                        [row |-> [row EXCEPT ![0] = i], diagonal |-> row[0]], [j \in 1..Len(b) |-> j]).row
  IN FoldLeft(next, row0, [i \in 1..Len(a) |-> i])[Len(b)]

----
RECURSIVE Edits(_, _)
Edits(a, b) == IF a = << >> \/ b = << >> THEN Len(a) + Len(b)
               ELSE Min({Edits(Tail(a), b) + 1, Edits(a, Tail(b)) + 1, Edits(Tail(a), Tail(b)) + (IF a[1] = b[1] THEN 0 ELSE 1)})
CfSamples ==
  [kind : {"config"}, file : CfFiles, env : CfEnvs, args : SeqOf(CfArgs, CfMaxArgs), strict : BOOLEAN]
  \cup [kind : {"typo"}, a : SeqOf(CfLetters, CfMaxWord), b : SeqOf(CfLetters, CfMaxWord)]

\* A server that starts runs with what it was told: for every key what the
\* command line says, or else the last of the environment (whether as ORBIT_KEY
\* or ORBIT_SERVER__KEY), or else the file, and that is a value the key takes;
\* anything else given for a key keeps it from starting. Names that are nobody's
\* are left alone, other sections see the environment too, and the distance
\* behind "did you mean" is the number of edits.
ConfigTrue ==
  /\ sample.kind = "config" =>
       LET doc == [server |-> sample.file]
           got == from_json(doc, sample.env, sample.args, sample.strict)
           set(i) == sample.env[i].path \in {<<k>> : k \in Keys} \cup {<<"server", k>> : k \in Keys}
           key(i) == sample.env[i].path[Len(sample.env[i].path)]
           envs(k) == {i \in DOMAIN sample.env : set(i) /\ key(i) = k}
           shadowed(k) == envs(k) # {}
           given(k) == IF shadowed(k) THEN {env_value(sample.env[Max(envs(k))].text)}
                       ELSE IF sample.file.t = "object" /\ k \in DOMAIN sample.file.of THEN {sample.file.of[k]} ELSE {}
           told(k) == {i \in DOMAIN sample.args : sample.args[i] \in DOMAIN CfFlags /\ CfFlags[sample.args[i]] = k}
       IN /\ got.ok =>
               \A k \in Keys :
                 /\ \A v \in given(k) : accepts(k, v)
                 /\ given(k) # {} => k \in DOMAIN got.of
                 /\ k \in DOMAIN got.of => given(k) # {} \/ told(k) # {}
                 /\ told(k) = {} => \A v \in given(k) : got.of[k] = stored(v)
                 /\ (Len(sample.args) = 2 /\ 1 \in told(k) /\ CfKinds[k].type # "bool") => got.of[k] = flag_value(k, sample.args[2])
                 /\ k \in DOMAIN got.of => CASE CfKinds[k].type = "count" -> got.of[k].n \in CfKinds[k].min..CfKinds[k].max
                                             [] CfKinds[k].type = "auto" -> got.of[k].n \in 0..CfNoLimit
                                             [] OTHER -> TRUE
          /\ (~got.ok /\ sample.args = << >>) =>
               \/ sample.file.t = "number" /\ \A k \in Keys : ~shadowed(k)
               \/ \E k \in Keys : \E v \in given(k) : ~accepts(k, v)
               \/ sample.file.t = "object" /\ DOMAIN sample.file.of \ Keys # {}
               \/ \E i \in DOMAIN sample.env : Len(sample.env[i].path) = 2 /\ sample.env[i].path[1] = "server" /\ key(i) \notin Keys \cup {""}
          /\ \A i \in DOMAIN sample.env : sample.env[i].path[1] = "db" => section(apply_environment(doc, sample.env),
                "db")[key(i)].s = sample.env[i].text
  /\ sample.kind = "typo" => distance(sample.a, sample.b) = Edits(sample.a, sample.b)
====
