---- MODULE MCServices ----
\* What stands on the connections, one component per behaviour: Init chooses
\* which.
EXTENDS Contents, TextFormats, Orm, Config, Json, Upstreams, Router, ClientState, Authentication, Messages, DatabaseClients
LOCAL INSTANCE SequencesExt
LOCAL INSTANCE TLC

\* Router: what is registered, and what is asked for.
MCPatterns == {<<"a">>, <<":p">>, <<"{n:int}">>, <<"*">>, <<"a", "*">>, <<":p", "a">>}
MCPaths == {[path |-> p, tidy |-> TRUE] : p \in {<<"a">>, <<"x">>, <<"a", "a">>, <<"a", "1">>, <<"a", "1", "x">>}}
             \cup {[path |-> <<"a">>, tidy |-> FALSE]}

\* Jwt: the keys of the world, and tokens from elsewhere.
MCAlg == [r |-> "RS256", e |-> "ES256", w |-> ""]
MCFirst == [a |-> NoKey, b |-> "w"]
MCPublishes == [a |-> {"r", "e"}, b |-> {}]
MCConfigs == {[secret |-> TRUE, static |-> NoKey, jwks |-> TRUE, require_exp |-> TRUE], [secret |-> FALSE,
      static |-> "e", jwks |-> TRUE, require_exp |-> FALSE]}
MCTokens == {[alg |-> t[1], kid |-> t[2], signer |-> t[3], aud |-> {t[4]}, iat |-> 0, exp |-> t[5], nbf |-> NoClaim] :
               t \in {<<"RS256", "", "r", "us", 3>>, <<"ES256", "a", "e", "us", 3>>,
                      <<"RS256", "b", "r", "us", 3>>, <<"HS256", "", "secret", "them", 3>>, <<"ES256", "", "e", "us", NoClaim>>}}

\* BrowserFlows: one browser with two tabs, one with one.
CONSTANTS b1, b2
MCTabs == {<<b1, 1>>, <<b1, 2>>, <<b2, 1>>}

\* Migrations: one runner knows a file more. Observability: bounds of a
\* histogram.
MCMgFiles == [r1 |-> 2, r2 |-> 3]
MCObBounds == <<1, 3>>

\* Upstreams: what an upstream answers.
MCResponses == {
  <<"length", "body", "last">>, <<"partial", "chunked", "garbled">>, <<"chunked", "last">>, <<"empty">>,
  <<"informational", "empty">>, <<"close", "body">>, <<"bad", "body">>, <<"switch", "body">> }

\* Contents: responses that compress, or do not.
MCCmOptions == {[preference |-> p, min_size |-> 3] : p \in {<<"br", "zstd", "gzip">>, <<"gzip", "br">>}}
MCHandled(status, size, file, encoding, compressible, vary) ==
  [status |-> status, body |-> [coding |-> Identity, size |-> size, of |-> "x"], file |-> file, length |-> size, encoding |-> encoding,
   no_transform |-> FALSE, compressible |-> compressible, vary |-> vary, etag |-> [tag |-> 1, weak |-> FALSE]]
MCCmResponses == {MCHandled(200, n, FALSE, Identity, TRUE, v) : n \in {0, 2, 3, 6}, v \in {{}, {"*"}, {"origin"}}}
                 \cup {MCHandled(304, 6, FALSE, Identity, TRUE, {}), MCHandled(200, 6, FALSE, "br", TRUE, {}),
                       MCHandled(200, 6, TRUE, Identity, TRUE, {}), MCHandled(200, 6, FALSE, Identity, FALSE, {}),
                       [MCHandled(200, 6, FALSE, Identity, TRUE, {}) EXCEPT !.etag = NoTag], [MCHandled(200, 6, FALSE,
                             Identity, TRUE, {}) EXCEPT !.no_transform = TRUE]}
MCElements == {[coding |-> e[1], param |-> e[2]] : e \in {<<"gzip", NoParam>>, <<"x-gzip", 5>>, <<"br", 0>>, <<"br",
      NoParam>>, <<"*", 5>>, <<"zstd", BadParam>>}}

\* Contents: a directory as it changes, and the paths asked for.
MCFile(t, s) == [kind |-> "file", mtime |-> t, size |-> s, id |-> <<t, s>>]
MCDir == [kind |-> "dir"]
MCLink(to) == [kind |-> "link", target |-> to]
MCWorld(f) == f @@ <<"srv">> :> MCDir @@ <<"srv", "pub">> :> MCDir @@ <<"srv", "pub", ".git">> :> MCDir
   @@ <<"srv", "pub", "d">> :> MCDir @@ <<"srv", "pub", "out">> :> MCLink(<<"srv", "key">>) @@ <<"srv", "key">> :> MCFile(9, 9)
   @@ <<"srv", "pub", ".git", "a">> :> MCFile(8, 8) @@ <<"srv", "pub", "up">> :> MCLink(<<"srv", "pub", "a">>)
   @@ <<"srv", "pub", "d", "index">> :> MCLink(<<"srv", "pub", "a">>)
MCWorlds == << MCWorld(<<"srv", "pub", "a">> :> MCFile(1, 4)),
  MCWorld(<<"srv", "pub", "a">> :> MCFile(2, 4) @@ <<"srv", "pub", "a.br">> :> MCFile(2, 2)),
  MCWorld(<<"srv", "pub", "a">> :> MCFile(3, 2) @@ <<"srv", "pub", "a.br">> :> MCFile(4, 1) @@ <<"srv", "pub", "a.gz">> :> MCFile(3, 3)),
  MCWorld(<<"srv", "pub", "a.br">> :> MCLink(<<"srv", "key">>)) >>
MCSfPaths == {<<"m", "a">>, <<"m", "d">>, <<"m", "out">>, <<"m", "..", "key">>, <<"m", ".git", "a">>, <<"m", "up">>, <<"m", "zip">>, <<"n", "a">>}
MCSfOptions == [index : {"index"}, serve_dotfiles : BOOLEAN, mount : {<<"m">>}, fallthrough : {TRUE}, precompressed : BOOLEAN]
                \cup {[index |-> "", serve_dotfiles |-> FALSE, mount |-> << >>, fallthrough |-> FALSE, precompressed |-> TRUE]}
MCVariant == [n \in {"a", "index"} |-> [gzip |-> n \o ".gz", br |-> n \o ".br", zstd |-> n \o ".zst"]]
MCBase == <<"srv", "pub">>

\* Forwarding: the proxy's address, and bodies cut into chunks.
MCFwProxy == <<1, 3, 2>>
MCFwChunks == {<< >>, <<<<1, 17>>>>, <<<<0>>, <<16, 3, 3>>>>}

\* Orm: a model with a key, a reserved word and one more column.
MCOrmColumns == <<"id", "user", "b">>
MCOrmTexts == "7" :> "int" @@ "007" :> "int" @@ "x" :> "string"

\* Config: options of every kind, and where their values come from.
MCCfKinds == [port |-> [type |-> "count", min |-> 0, max |-> 3], threads |-> [type |-> "auto", min |-> 1, max |-> 3],
              host |-> [type |-> "string", min |-> 0, max |-> 0], cpu |-> [type |-> "bool", min |-> 0, max |-> 0],
                    level |-> [type |-> "enum", min |-> 0, max |-> {"INFO"}]]
MCCfFlags == [p |-> "port", t |-> "threads", b |-> "host", a |-> "cpu"]
MCCfJson == [p |-> CfBad, t |-> CfBad, b |-> CfBad, a |-> CfBad, x |-> CfBad, auto |-> CfBad, null |-> CfNull, INFO |-> CfBad,
             three |-> Num(3), four |-> Num(4), quoted |-> Str("x"), true |-> Flag(TRUE)]
MCEnv(path, text) == [path |-> path, text |-> text]
MCCfEnvs == {<< >>, <<MCEnv(<<"port">>, "three")>>, <<MCEnv(<<"port">>, "four"), MCEnv(<<"server", "port">>, "three")>>, <<MCEnv(<<"engine">>, "x")>>,
             <<MCEnv(<<"server", "">>, "x"), MCEnv(<<"host">>, "three")>>, <<MCEnv(<<"db", "url">>, "x"),
                   MCEnv(<<"threads">>, "auto")>>, <<MCEnv(<<"server", "oops">>, "x")>>,
             <<MCEnv(<<"cpu">>, "true"), MCEnv(<<"level">>, "INFO")>>, <<MCEnv(<<"host">>, "null")>>}
MCObject(f) == [t |-> "object", of |-> f]
MCCfFiles == {[t |-> "null", of |-> << >>], [t |-> "number", of |-> << >>], MCObject(<< >>),
      MCObject([port |-> Num(1)]), MCObject([port |-> Str("auto"), threads |-> Str("auto")]),
              MCObject([threads |-> Num(0)]), MCObject([host |-> Str("x"), cpu |-> Flag(FALSE)]),
                    MCObject([prot |-> Num(1)]), MCObject([level |-> Str("x")])}

\* JsonText: tokens, and values to write and read back.
MCJtTokens == {<<91>>, <<93>>, <<123>>, <<125>>, <<44>>, <<58>>, <<34, 97, 34>>, <<49>>}
MCJtLeaf == {JNull, JBool(TRUE), JUnsigned(10), JInteger(-8), JFloat(<<49, 46, 53>>), JString(<<34, 195, 169>>), JArray(<< >>), JObject(<< >>)}
MCJtBranch == MCJtLeaf \cup {JArray(<<a, b>>) : a, b \in MCJtLeaf} \cup {JObject(<<98>> :> a @@ <<34>> :> b) : a, b \in MCJtLeaf}
MCJtValues == MCJtBranch \cup {JArray(<<a, JObject(<<97, 10>> :> b)>>) : a \in MCJtBranch, b \in MCJtLeaf}

\* JsonPatch: keys that need escaping or look like an index, arrays that grow
\* and shrink, and both inside one another.
MCJpKeys == {<<97>>, <<126, 49>>, <<47>>, <<48>>, << >>}
MCJpLeaf == {JNull, JUnsigned(1), JString(<<97>>), JArray(<< >>), JObject(<< >>)}
MCJpSmall == MCJpLeaf \cup {JArray(s) : s \in SeqOf({JNull, JUnsigned(1)}, 3)} \cup {JObject(k :> v) : k \in MCJpKeys, v \in MCJpLeaf}
              \cup {JObject(<<97>> :> v @@ <<126, 49>> :> w) : v, w \in {JNull, JUnsigned(1)}}
MCJpValues == MCJpSmall \cup {JArray(<<v, w>>) : v \in MCJpSmall, w \in {JUnsigned(1), JArray(<<JNull>>)}}
      \cup {JObject(<<97>> :> v @@ <<47>> :> JArray(<<JUnsigned(1), JNull>>)) : v \in MCJpSmall}
MCJpRows == {JArray(s) : s \in SeqOf({JNull, JUnsigned(1)}, 2)}
MCJpDeep == {JArray(<<v, JObject(<<126, 49>> :> w)>>) : v, w \in MCJpRows}
MCJpPairs == (MCJpValues \X MCJpLeaf) \cup (MCJpSmall \X MCJpSmall) \cup (MCJpDeep \X MCJpDeep)
MCJpPointers == SeqOf({47, 126, 48, 49, 97}, 4)

DtInit == sample = NoSample

\* The components by what their cases are about.
Topics == {"texts", "contents", "files", "headers", "forwarding", "statements", "settings", "json", "patches"}
DtNext(topic) ==
  \/ topic = "texts" /\ Pick(TxSamples)
  \/ topic = "contents" /\ Pick(CmSamples)
  \/ topic = "files" /\ Pick(SfSamples)
  \/ topic = "headers" /\ Pick(HmSamples)
  \/ topic = "forwarding" /\ Pick(FwSamples)
  \/ topic = "statements" /\ Pick(OrmSamples)
  \/ topic = "settings" /\ Pick(CfSamples)
  \/ topic = "json" /\ Pick(JtSamples)
  \/ topic = "patches" /\ Pick(JpSamples)

CONSTANT Parts       \* the components this instance covers

VARIABLE part        \* the component the behaviour is about

others(p) ==
  /\ p # "client" => UNCHANGED clVars
  /\ p # "proxy" => UNCHANGED pxVars
  /\ p # "router" => UNCHANGED rtVars
  /\ p # "limiters" => UNCHANGED lmVars
  /\ p # "sessions" => UNCHANGED smVars
  /\ p # "jwt" => UNCHANGED jwVars
  /\ p # "browsers" => UNCHANGED bfVars
  /\ p # "messages" => UNCHANGED msVars
  /\ p # "redis" => UNCHANGED rdVars
  /\ p # "postgres" => UNCHANGED pgVars
  /\ p # "awaits" => UNCHANGED aqVars
  /\ p # "migrations" => UNCHANGED mgVars
  /\ p # "observability" => UNCHANGED obVars
  /\ p \notin Topics => UNCHANGED sample

MCInit == part \in Parts /\ (part # "proxy" => pxTls = FALSE)
  /\ (part # "limiters" => lmKind = "memory") /\ (part # "sessions" => smSave = TRUE) /\ (part # "browsers" => bfPkce = TRUE)
  /\ (part # "jwt" => jwOptions = [secret |-> TRUE, static |-> NoKey, jwks |-> TRUE, require_exp |-> TRUE])
  /\ ClInit
  /\ PxInit
  /\ RtInit
  /\ LmInit
  /\ SmInit
  /\ JwInit
  /\ BfInit
  /\ MsInit
  /\ RdInit
  /\ PgInit
  /\ AqInit
  /\ MgInit
  /\ ObInit
  /\ DtInit

MCNext ==
  /\ UNCHANGED part /\ others(part)
  /\ \/ part = "client" /\ ClNext
     \/ part = "proxy" /\ PxNext
     \/ part = "router" /\ RtNext
     \/ part = "limiters" /\ LmNext
     \/ part = "sessions" /\ SmNext
     \/ part = "jwt" /\ JwNext
     \/ part = "browsers" /\ BfNext
     \/ part = "messages" /\ MsNext
     \/ part = "redis" /\ RdNext
     \/ part = "postgres" /\ PgNext
     \/ part = "awaits" /\ AqNext
     \/ part = "migrations" /\ MgNext
     \/ part = "observability" /\ ObNext
     \/ DtNext(part)

MCVars == <<part, clVars, pxVars, rtVars, lmVars, smVars, jwVars, bfVars, msVars, rdVars, pgVars, aqVars, mgVars, obVars, sample>>

MCSpec == MCInit /\ [][MCNext]_MCVars

\* Each property is about the behaviours of its components; the others stay as
\* they were initialised.

\* Texts, headers, files, addresses, settings and statements mean the same to
\* both sides: to the client, the caches on its way, the proxy, the server and
\* its database (HttpParser, compress, static_files, cors, trusted_proxies,
\* Config, QueryBuilder).
ContentSound == /\ TextsSurvive /\ VariantsApart /\ CopiesStayTrue /\ DatesSound /\ OriginsApart /\ ClientNotSpoofed
                /\ ChunksWhole /\ ConfigTrue /\ OrmFaithful

\* JSON is read and written as it is defined, and patches do what they say
\* (json.hpp).
JsonSound == JsonExact /\ PatchesTrue
====
