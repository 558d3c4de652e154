---- MODULE Contents ----
\* The middleware that works on headers and bodies: content codings, headers,
\* and the files that are served from a directory.
EXTENDS Sample, Integers, Sequences
LOCAL INSTANCE FiniteSets
LOCAL INSTANCE FiniteSetsExt
LOCAL INSTANCE Functions
LOCAL INSTANCE TLC
LOCAL INSTANCE SequencesExt

----
\* Content codings: what Accept-Encoding allows, and the interceptor of
\* compress() (middleware/Compress.cpp). A header is the sequence of its
\* elements, a body is an original and the coding it was put in.

CONSTANTS CmElements,      \* elements of Accept-Encoding: [coding, param]
          CmAvailable,     \* the codings of this build
          CmOptions,       \* CompressOptions: [preference, min_size]
          CmResponses      \* what handlers send

Identity == "identity"
NoTag == [tag |-> 0, weak |-> FALSE]      \* no ETag
Codings == {"gzip", "br", "zstd"}

\* A param is a q-value in tenths, absent or malformed.
NoParam == -1
BadParam == -2
quality(param) == CASE param = NoParam -> 10 [] param = BadParam -> 0 [] OTHER -> param

named(coding) == IF coding = "x-gzip" THEN "gzip" ELSE coding

\* The best q a coding is given, the last one for the wildcard, -1 where there
\* is none.
parse_accept_encoding(header) ==
  [c \in Codings \cup {"*"} |->
     LET said == {i \in DOMAIN header : named(header[i].coding) = c}
     IN IF said = {} THEN -1
        ELSE IF c = "*" THEN quality(header[Max(said)].param)
        ELSE Max({quality(header[i].param) : i \in said})]

coding_available(coding) == coding \in {Identity, "gzip"} \cup CmAvailable

\* Mutant: the wildcard stands for refused codings too.
negotiate_coding_Star(header, preference, only_available) ==
  LET a == parse_accept_encoding(header)
      q(i) == Max({a[preference[i]], a["*"], 0})
      offered == {i \in DOMAIN preference : preference[i] # Identity /\ (only_available => coding_available(preference[i])) /\ q(i) > 0}
  IN IF offered = {} THEN Identity
     ELSE preference[CHOOSE i \in offered : \A j \in offered : q(j) < q(i) \/ (q(j) = q(i) /\ i <= j)]

\* The highest q wins, a tie goes to the earlier preference.
negotiate_coding(header, preference, only_available) ==
  LET a == parse_accept_encoding(header)
      q(i) == IF a[preference[i]] >= 0 THEN a[preference[i]] ELSE Max({a["*"], 0})
      offered == {i \in DOMAIN preference : preference[i] # Identity /\ (only_available => coding_available(preference[i])) /\ q(i) > 0}
  IN IF offered = {} THEN Identity
     ELSE preference[CHOOSE i \in offered : \A j \in offered : q(j) < q(i) \/ (q(j) = q(i) /\ i <= j)]

\* How small a coding makes a body of this size: the libraries.
compressed_size(size) == (size + 2) \div 2
compress_body(coding, body) == [coding |-> coding, size |-> compressed_size(body.size), of |-> body.of]

add_vary_accept_encoding(vary) == IF vary \in {{"*"}} THEN vary ELSE vary \cup {"accept-encoding"}

\* The interceptor: what leaves, given what the handler sent.
compress(header, options, res) ==
  LET coding == negotiate_coding(header, options.preference, TRUE)
      left_alone == \/ res.body.size = 0 \/ res.file
                    \/ res.status < 200 \/ res.status \in {204, 304}
                    \/ res.body.size < options.min_size
                    \/ res.encoding # Identity \/ res.no_transform \/ ~res.compressible
      varied == [res EXCEPT !.vary = add_vary_accept_encoding(@)]
      packed == compress_body(coding, res.body)
  IN IF left_alone THEN res
     ELSE IF coding = Identity \/ packed.size >= res.body.size THEN varied
     ELSE [varied EXCEPT !.body = packed, !.encoding = coding, !.length = packed.size,
                         !.etag = IF @ = NoTag THEN @ ELSE [@ EXCEPT !.weak = TRUE]]

----
CmHeaders == UNION {[1..n -> CmElements] : n \in 0..2}
CmSamples == [kind : {"coding"}, one : CmHeaders, other : UNION {[1..n -> CmElements] : n \in 0..1}, options : CmOptions, res : CmResponses]

\* What RFC 9110 lets a server send to a client that sent this header.
acceptable(header, coding) ==
  LET named_so == {i \in DOMAIN header : named(header[i].coding) = coding}
      stars == {i \in DOMAIN header : header[i].coding = "*"}
  IN \/ coding = Identity
     \/ named_so # {} /\ \E i \in named_so : quality(header[i].param) > 0
     \/ named_so = {} /\ stars # {} /\ quality(header[Max(stars)].param) > 0

\* Two clients ask for the same thing: neither gets a coding it did not accept
\* unless the handler itself chose it; where the bytes they get differ, both
\* responses say that they vary, so a cache keeps them apart, and they never
\* share a strong ETag; and the Content-Length is that of the body that is sent.
VariantsApart ==
  sample.kind = "coding" =>
    LET a == compress(sample.one, sample.options, sample.res)
        b == compress(sample.other, sample.options, sample.res)
    IN /\ a.encoding = sample.res.encoding \/ acceptable(sample.one, a.encoding)
       /\ a.body # b.body => /\ a.vary \cap {"accept-encoding", "*"} # {}
                             /\ b.vary \cap {"accept-encoding", "*"} # {}
                             /\ ~(a.etag = b.etag /\ a.etag # NoTag /\ ~a.etag.weak)
       /\ ~a.file => a.length = a.body.size

----
\* The middleware that only adds or checks headers: cors() and
\* require_origin() (middleware/Cors.cpp), security_headers(),
\* validate_json(), and the order in which a response takes up what middleware
\* left for it: interceptors first (above), then the default headers it
\* does not have yet.

CONSTANTS HmOrigins,       \* origins of pages
          HmListed,        \* those a configuration lists
          HmFields         \* fields of a JSON schema

NoOrigin == "none"

\* CorsOptions; a wildcard never grants credentials.
cors_options(origins, credentials) == [origins |-> origins, credentials |-> credentials /\ "*" \notin origins]

\* The default headers cors() leaves on the writer, and the answer to a
\* preflight.
cors(options, req) ==
  LET any == "*" \in options.origins
      allowed == req.origin # NoOrigin /\ (any \/ req.origin \in options.origins)
  IN [defaults |-> (IF any THEN [allow_origin |-> {"*"}]
                    ELSE [vary |-> {"origin"}] @@ (IF allowed THEN [allow_origin |-> {req.origin}]
                          @@ (IF options.credentials THEN [allow_credentials |-> {"true"}] ELSE << >>) ELSE << >>)),
      preflight |-> req.method = "OPTIONS" /\ req.origin # NoOrigin /\ req.asks,
      methods |-> allowed]
require_origin(origins, req) == req.origin = NoOrigin \/ req.origin \in origins

\* Every header whose option is not empty, as a default.
security_headers(options) == Restrict(options, {n \in DOMAIN options : options[n] # {}})

\* Mutant: defaults win.
apply_defaults_Over(headers, defaults) == defaults @@ headers

\* apply_response_hooks(), Connection::send(): what the handler and the
\* interceptors set stays, a default fills in what is missing.
apply_defaults(headers, defaults) == headers @@ defaults

\* A response, its Vary seen as a header: compress() runs as an interceptor.
respond(header, options, res, defaults) ==
  LET out == compress(header, options, res)
  IN apply_defaults(IF out.vary = {} THEN << >> ELSE [vary |-> out.vary], defaults)

\* The names of the fields an error is reported for.
validate_json(schema, object) ==
  {f \in DOMAIN schema : IF f \in DOMAIN object THEN object[f] # schema[f].type ELSE schema[f].required}

----
HmRequests == [method : {"GET", "OPTIONS"}, origin : HmOrigins \cup {NoOrigin}, asks : BOOLEAN]
HmTypes == {"string", "number"}
HmSamples == [kind : {"origin"}, origins : {HmListed, {"*"}, HmListed \cup {"*"}}, credentials : BOOLEAN,
      one : HmRequests, other : HmRequests, res : CmResponses]
             \cup [kind : {"schema"}, schema : [HmFields -> [type : HmTypes, required : BOOLEAN]],
                   object : UNION {[d -> HmTypes] : d \in SUBSET HmFields}]

\* Pages of two origins load the same resource through a shared cache: answers
\* that differ are told apart by Vary: Origin, or a page could be refused what it
\* may read, or read what it may not. This says nothing of a response that brings
\* a Vary of its own, from its handler, static_files() or compress(): cors() only
\* leaves a default (Cors.cpp:45), which such a response does not take up, where
\* docs/middleware.md:127 says that Vary: Origin is always sent. Credentials are
\* granted to listed origins alone; what compress() leaves of the response takes
\* up every other header of cors(); what the handler says, a security header does
\* not overwrite; a body that passes the schema has every required field with its
\* type.
OriginsApart ==
  /\ sample.kind = "origin" =>
       LET o == cors_options(sample.origins, sample.credentials)
           a == cors(o, sample.one)
           b == cors(o, sample.other)
           header == <<[coding |-> "gzip", param |-> NoParam]>>
       IN /\ \A options \in CmOptions :
               LET x == respond(header, options, sample.res, a.defaults)
                   y == respond(header, options, sample.res, b.defaults)
               IN  /\ x # y /\ compress(header, options, sample.res).vary = {} => "origin" \in x.vary \cap y.vary
                   /\ \A n \in DOMAIN a.defaults \ {"vary"} : x[n] = a.defaults[n]
          /\ "allow_credentials" \in DOMAIN a.defaults =>
               sample.one.origin \in HmListed /\ a.defaults.allow_origin = {sample.one.origin}
          /\ ~require_origin(HmListed, sample.one) /\ "*" \notin sample.origins =>
               "allow_origin" \notin DOMAIN a.defaults /\ ~a.methods
          /\ apply_defaults([frame |-> {"own"}], security_headers([frame |-> {"deny"}, csp |-> {}, hsts |-> {"on"}]))
               = [frame |-> {"own"}, hsts |-> {"on"}]
  /\ sample.kind = "schema" =>
       (validate_json(sample.schema, sample.object) = {} <=>
          \A f \in HmFields : (sample.schema[f].required => f \in DOMAIN sample.object) /\ (f \in DOMAIN sample.object => sample.object[f] = sample.schema[f].type))

----
\* static_files() (middleware/StaticFiles.cpp). A path is the sequence of its
\* components; a file system gives the paths that exist their node: a
\* directory, a file with its times and its contents, or a symbolic link.

CONSTANTS SfBase,        \* the directory that is served
          SfWorlds,      \* file systems, in the order they follow one another
          SfPaths,       \* what clients ask for
          SfOptions,     \* StaticFilesOptions: [index, serve_dotfiles, mount, fallthrough, precompressed]
          SfHidden,      \* names that start with a dot
          SfVariant,     \* name -> coding -> the name with the suffix of the coding
          SfMaxU64       \* UINT64_MAX

SfNone == [kind |-> "none"]
at(fs, path) == IF path \in DOMAIN fs THEN fs[path] ELSE SfNone

\* fs::weakly_canonical: links are followed as far as the path exists.
RECURSIVE canonical(_, _, _)
canonical(fs, done, rest) ==
  IF rest = << >> THEN done
  ELSE LET next == IF Head(rest) = ".." THEN SubSeq(done, 1, Len(done) - 1) ELSE Append(done, Head(rest))
           node == at(fs, next)
       IN IF node.kind = "link" THEN canonical(fs, << >>, node.target \o Tail(rest))
          ELSE canonical(fs, next, Tail(rest))

\* Mutant: links are not followed.
resolve_Unlinked(fs, candidate, dotfiles) ==
  LET out == candidate
      inside == SubSeq(out, Len(SfBase) + 1, Len(out))
  IN [out |-> out, is |-> IF ~IsPrefix(SfBase, out) THEN "Outside"
                          ELSE IF ~dotfiles /\ \E i \in DOMAIN inside : inside[i] \in SfHidden THEN "Hidden" ELSE "Inside"]

\* What the file is called inside the base, and whether it may be served.
resolve(fs, candidate, dotfiles) ==
  LET out == canonical(fs, << >>, candidate)
      inside == SubSeq(out, Len(SfBase) + 1, Len(out))
  IN [out |-> out, is |-> IF ~IsPrefix(SfBase, out) THEN "Outside"
                          ELSE IF ~dotfiles /\ \E i \in DOMAIN inside : inside[i] \in SfHidden THEN "Hidden" ELSE "Inside"]

stat_path(fs, path) == at(fs, canonical(fs, << >>, path))

\* Every year divisible by four is a leap year.
days_from_civil_NoLeap(year, m, d) ==
  LET y == IF m <= 2 THEN year - 1 ELSE year
  IN y * 365 + (y \div 4) + ((153 * (IF m > 2 THEN m - 3 ELSE m + 9) + 2) \div 5) + d - 719469

\* Days since 1970-01-01.
days_from_civil(year, m, d) ==
  LET y == IF m <= 2 THEN year - 1 ELSE year
      era == (IF y >= 0 THEN y ELSE y - 399) \div 400
      yoe == y - era * 400
      mp == IF m > 2 THEN m - 3 ELSE m + 9
      doy == ((153 * mp + 2) \div 5) + d - 1
      doe == yoe * 365 + (yoe \div 4) - (yoe \div 100) + doy
  IN era * 146097 + doe - 719468

\* An IMF-fixdate taken apart, as the day and the second of the day that
\* together make a time_t; {} for what is not one.
parse_http_date(f) ==
  IF f.month \notin 1..12 \/ f.day \notin 1..31 \/ f.hour > 23 \/ f.minute > 59 \/ f.second > 60 THEN {}
  ELSE {[day |-> days_from_civil(f.year, f.month, f.day), second |-> f.hour * 3600 + f.minute * 60 + f.second]}

\* The weak comparison: W/ is stripped from both.
AnyTag == << >>      \* "*"
etag_list_matches(header, etag) == \E i \in DOMAIN header : header[i] \in {AnyTag, etag}

NoRange == [range |-> "None", first |-> 0, last |-> 0]
NoSpec == [unit |-> FALSE, many |-> FALSE, dashless |-> FALSE, first |-> 0, last |-> 0]      \* no Range field

\* spec: [unit, many, dashless, first, last]; a bound is a number, empty or
\* malformed.
Empty == -1
Malformed == -2
number(bound) == bound \in 0..SfMaxU64
parse_range(spec, size) ==
  LET first == spec.first
      last == IF spec.last = Empty THEN SfMaxU64 ELSE spec.last
      Satisfiable(a, b) == [range |-> "Satisfiable", first |-> a, last |-> b]
      Unsatisfiable == [NoRange EXCEPT !.range = "Unsatisfiable"]
  IN IF ~spec.unit \/ spec.many \/ spec.dashless THEN NoRange
     ELSE IF first = Empty
     THEN IF ~number(spec.last) THEN NoRange
          ELSE IF spec.last = 0 \/ size = 0 THEN Unsatisfiable
          ELSE Satisfiable(size - Min({spec.last, size}), size - 1)
     ELSE IF ~number(first) \/ ~number(last) THEN NoRange
     ELSE IF last < first THEN NoRange
     ELSE IF first >= size THEN Unsatisfiable
     ELSE Satisfiable(first, Min({last, size - 1}))

\* The precompressed siblings that may be served, best first.
present(fs, file, opts) ==
  LET name == file[Len(file)]
      sibling(c) == Append(SubSeq(file, 1, Len(file) - 1), SfVariant[name][c])
      ok(c) == name \in DOMAIN SfVariant /\ resolve(fs, sibling(c), opts.serve_dotfiles).is = "Inside" /\ stat_path(fs, sibling(c)).kind = "file"
  IN IF opts.precompressed THEN [codings |-> SelectSeq(<<"br", "zstd", "gzip">>, ok), of |-> [c \in {d \in Codings : ok(d)} |-> sibling(c)]]
     ELSE [codings |-> << >>, of |-> << >>]

tag_of(info) == <<info.mtime, info.size>>

\* If-Range: absent, a tag or a date.
NoValidator == [by |-> "none"]
ByTag(tag) == [by |-> "tag", tag |-> tag]
ByDate(date) == [by |-> "date", date |-> date]
SfPass == [does |-> "next"]
miss(opts) == IF opts.fallthrough THEN SfPass ELSE [does |-> "send", status |-> 404]

\* The middleware: fs is what the checks see, now what the open a moment later
\* does.
static_files(fs, now, opts, req) ==
  LET \* What is said of the file that was found, or of its variant.
      answer(file, coding, varies, info, opened) ==
        LET send(status, a, b) == [does |-> "send", status |-> status, tag |-> tag_of(info), mtime |-> info.mtime, vary |-> varies,
                                   encoding |-> coding, file |-> file, contents |-> opened, first |-> a, last |-> b]
            not_modified == IF req.none_match # << >> THEN etag_list_matches(req.none_match, tag_of(info))
                            ELSE \E since \in req.modified_since : info.mtime <= since
            current == req.if_range \in {NoValidator, ByTag(tag_of(info)), ByDate(info.mtime)}
            ranged(range) == CASE range.range = "Unsatisfiable" -> [does |-> "send", status |-> 416]
                               [] range.range = "Satisfiable" -> send(206, range.first, range.last)
                               [] OTHER -> send(200, 0, opened.size - 1)
        IN IF not_modified THEN send(304, 0, -1)
           ELSE IF opened.kind # "file" THEN miss(opts)
           ELSE ranged(IF req.method = "GET" /\ current THEN parse_range(req.range, opened.size) ELSE NoRange)
      stated(file, coding, varies) == answer(file, coding, varies, stat_path(fs, file), stat_path(now, file))
      coded(file, variants, coding) == stated(IF coding = Identity THEN file ELSE variants.of[coding], coding, variants.codings # << >>)
      chosen(file, variants) == coded(file, variants, negotiate_coding(req.accept, variants.codings, FALSE))
      served(found) ==
        IF found.is # "Inside" \/ stat_path(fs, found.out).kind # "file" THEN miss(opts) ELSE chosen(found.out, present(fs, found.out, opts))
      looked_up(first, dir) ==
        CASE first.is = "Outside" -> [does |-> "send", status |-> 403]
          [] first.is = "Hidden" \/ (dir /\ opts.index = "") -> miss(opts)
          [] OTHER -> served(IF dir THEN resolve(fs, Append(first.out, opts.index), opts.serve_dotfiles) ELSE first)
      entered(first) == looked_up(first, stat_path(fs, first.out).kind = "dir")
  IN IF req.method \notin {"GET", "HEAD"} \/ ~IsPrefix(opts.mount, req.path) THEN SfPass
     ELSE IF stat_path(fs, SfBase).kind = "none" THEN miss(opts)
     ELSE entered(resolve(fs, SfBase \o SubSeq(req.path, Len(opts.mount) + 1, Len(req.path)), opts.serve_dotfiles))

----
SfPlain(path, accept) == [method |-> "GET", path |-> path, accept |-> accept, none_match |-> << >>,
      modified_since |-> {}, if_range |-> NoValidator, range |-> NoSpec]
SfRanges == {[unit |-> r[1] # 1, many |-> r[1] = 2, dashless |-> r[1] = 3, first |-> r[2], last |-> r[3]] :
               r \in {<<1, 0, 1>>, <<2, 0, 1>>, <<3, 0, 1>>, <<0, 5, Empty>>, <<0, 0, Malformed>>, <<0, Malformed, 1>>}
                     \cup ({0} \X {Empty, 0, 1} \X {Empty, 0, SfMaxU64})}
SfSamples == [kind : {"file"}, path : SfPaths, opts : SfOptions, accept : {<< >>, <<[coding |-> "br",
      param |-> NoParam]>>, <<[coding |-> "*", param |-> 5], [coding |-> "br", param |-> 0]>>},
              then : 1..Len(SfWorlds), now : 1..Len(SfWorlds), range : SfRanges]
             \cup [kind : {"date"}, year : {1970, 1999, 2000, 2023, 2024, 2100}, month : 1..12]

month_days(y, m) == IF m = 2 THEN (IF y % 4 = 0 /\ (y % 100 # 0 \/ y % 400 = 0) THEN 29 ELSE 28) ELSE IF m \in {4, 6, 9, 11} THEN 30 ELSE 31
Sends(r) == r.does = "send" /\ r.status \in {200, 206}

\* A client asks for a file, and asks again later with what it got: no answer
\* reaches outside the directory, through a link either, or to a hidden file; a
\* 304 means the copy it has is what it would get now; a range asked for with
\* the tag of its copy is a part of the same contents, and within the file, also
\* one that is replaced between the check and the open; and clients who accept
\* different codings are told apart by Vary.
CopiesStayTrue ==
  sample.kind = "file" =>
    LET fs == SfWorlds[sample.then]
        now == SfWorlds[sample.now]
        req == SfPlain(sample.path, sample.accept)
        ask(world, then, r) == {static_files(world, then, sample.opts, r)}
        NotModified(r) == r.does = "send" /\ r.status = 304
    IN \A got \in ask(fs, fs, req) : Sends(got) =>
         /\ IsPrefix(SfBase, canonical(fs, << >>, got.file)) /\ got.contents.kind = "file"
         /\ sample.opts.serve_dotfiles \/ \A i \in DOMAIN got.file : got.file[i] \notin SfHidden
         /\ acceptable(sample.accept, got.encoding)
         /\ \A again \in ask(now, now, [req EXCEPT !.none_match = <<got.tag>>]) \cup
                            (IF sample.then <= sample.now THEN ask(now, now, [req EXCEPT !.modified_since = {got.mtime}]) ELSE {}) :
              NotModified(again) => \A fresh \in ask(now, now, req) : fresh.contents = got.contents
         /\ \A part \in ask(now, now, [req EXCEPT !.if_range = ByTag(got.tag), !.range = sample.range]) : part.does = "send" /\ part.status = 206 =>
              part.contents = got.contents /\ 0 <= part.first /\ part.first <= part.last /\ part.last < got.contents.size
         /\ \A raced \in ask(fs, now, [req EXCEPT !.range = sample.range]) :
              Sends(raced) => raced.first <= raced.last + 1 /\ raced.last < raced.contents.size
         /\ \A other \in ask(fs, fs, [req EXCEPT !.accept = << >>]) :
              Sends(other) /\ other.contents # got.contents => got.vary /\ other.vary

\* The calendar of the conditional requests (parse_http_date): the second after
\* the last one of a month is the first one of the next month, leap years and
\* centuries included, and the hours of a day are in order.
DatesSound ==
  sample.kind = "date" =>
    LET y == sample.year  m == sample.month
        stamp(year, month, day, hour, rest) ==
          CHOOSE t \in parse_http_date([year |-> year, month |-> month, day |-> day, hour |-> hour, minute |-> rest, second |-> rest]) : TRUE
        last == stamp(y, m, month_days(y, m), 23, 59)
        first == stamp(y + (m \div 12), (m % 12) + 1, 1, 0, 0)
    IN /\ first.day = last.day + 1 /\ first.second = 0 /\ last.second = 86399
       /\ stamp(y, m, 1, 1, 0).second > stamp(y, m, 1, 0, 59).second
====
