---- MODULE Router ----
\* The router (Router.cpp): groups register routes, middleware and error
\* handlers in any order; find_handler() searches what was registered. A path
\* is the sequence of its segments; whether its text has needless slashes is
\* told apart, for static routes are looked up by their text.
EXTENDS Integers, FiniteSets, SequencesExt

CONSTANTS RtPatterns,   \* what routes are registered under, relative to their group
          RtPaths,      \* paths of requests
          RtMaxRoutes,  \* bound: registrations
          RtMaxUses     \* bound: middleware and error handlers

VARIABLES routes_,          \* static routes by method and path
          dynamic_routes_,  \* the others, in the order of registration
          streams,          \* routes marked as streaming: method and pattern
          ws_routes_,       \* WebSocket routes: path and middleware
          middlewares_,     \* the app's own: each with the path it is for
          local_middlewares_, \* those of each group, for routes registered from now on
          handlers,         \* groups (the app is "root") with an on_error handler
          registered        \* history: every registration, in order

rtVars == <<routes_, dynamic_routes_, streams, ws_routes_, middlewares_, local_middlewares_, handlers, registered>>

Methods == {"GET", "HEAD", "POST"}
Params == {":p", "{n}", "{n:int}"}
Names == {"a", "1", "x"}
is_wildcard(s) == s = "*"
Literal(s) == s \notin Params /\ ~is_wildcard(s)
static(path) == \A i \in DOMAIN path : Literal(path[i])
wild(path) == path # << >> /\ is_wildcard(path[Len(path)])

\* Patterns are made of names, parameters and wildcards; paths of any segments.
ASSUME RtAssumption == /\ RtPatterns \subseteq Seq(Names \cup Params \cup {"*"})
                       /\ RtPaths \subseteq [path : Seq(STRING), tidy : BOOLEAN]

\* group(): the prefixes accumulate; a group inside another one starts with its
\* middleware, and its error scope falls back to the other's.
Prefix == [g \in {"root", "outer", "inner"} |->
             IF g = "root" THEN << >> ELSE IF g = "outer" THEN <<"a">> ELSE <<"a", "1">>]
Enclosing == [g \in {"outer", "inner"} |-> IF g = "outer" THEN "root" ELSE "outer"]
Groups_ == {"root", "outer", "inner"}

RtInit ==
  /\ routes_ = << >> /\ dynamic_routes_ = << >>
  /\ streams = {} /\ ws_routes_ = {} /\ middlewares_ = << >>
  /\ local_middlewares_ = [g \in Groups_ |-> << >>]
  /\ handlers = {} /\ registered = << >>

\* add_route_with_meta(): a path without parameters is a static route, and the
\* last of two wins; the group's middleware is copied into the route.
add_route(g, method, path) ==
  LET full == Prefix[g] \o path
      route == [id |-> Len(registered) + 1, method |-> method, path |-> full,
                mws |-> local_middlewares_[g], errors |-> g]
      key == <<method, full>>
  IN /\ \A i \in DOMAIN full : is_wildcard(full[i]) => i = Len(full)
     /\ IF static(full)
        THEN /\ routes_' = [k \in DOMAIN routes_ \cup {key} |-> IF k = key THEN route ELSE routes_[k]]
             /\ UNCHANGED dynamic_routes_
        ELSE /\ dynamic_routes_' = Append(dynamic_routes_, route)
             /\ UNCHANGED routes_
     /\ registered' = Append(registered, route)

Register(g, method, path) ==
  /\ Len(registered) < RtMaxRoutes
  /\ add_route(g, method, path)
  /\ UNCHANGED <<streams, ws_routes_, middlewares_, local_middlewares_, handlers>>

add_stream_route(g, method, path) ==
  /\ Len(registered) < RtMaxRoutes
  /\ streams' = streams \cup {<<method, Prefix[g] \o path>>}
  /\ add_route(g, method, path)
  /\ UNCHANGED <<ws_routes_, middlewares_, local_middlewares_, handlers>>

Uses == Len(middlewares_) + Cardinality(handlers) + Cardinality(ws_routes_)
        + Cardinality({g \in Groups_ : local_middlewares_[g] # << >>})

ws(g, path) ==
  /\ Uses < RtMaxUses /\ \A w \in ws_routes_ : w.path # Prefix[g] \o path
  /\ ws_routes_' = ws_routes_ \cup {[path |-> Prefix[g] \o path, mws |-> local_middlewares_[g]]}
  /\ UNCHANGED <<routes_, dynamic_routes_, streams, middlewares_, local_middlewares_, handlers, registered>>

\* use(): the app's middleware is for every request, under its prefix; a
\* group's only for what is registered in it, or in groups opened, afterwards.
use(g, prefix) ==
  /\ Uses < RtMaxUses /\ Len(local_middlewares_[g]) = 0
  /\ IF g = "root" THEN middlewares_' = Append(middlewares_, prefix) /\ UNCHANGED local_middlewares_
     ELSE /\ local_middlewares_' = [local_middlewares_ EXCEPT ![g] = Append(@, Prefix[g] \o prefix)]
          /\ UNCHANGED middlewares_
  /\ UNCHANGED <<routes_, dynamic_routes_, streams, ws_routes_, handlers, registered>>

on_error(g) ==
  /\ Uses < RtMaxUses /\ handlers' = handlers \cup {g}
  /\ UNCHANGED <<routes_, dynamic_routes_, streams, ws_routes_, middlewares_, local_middlewares_, registered>>

\* segment_matches_type(): only "1" is a number here.
Fits(seg, value) ==
  CASE seg = "{n:int}" -> value = "1"
    [] seg \in Params -> TRUE
    [] OTHER -> seg = value

\* match_segments(): the literal segments matched, or -1. A wildcard, which only
\* stands last, matches what is left.
match_segments(pattern, request) ==
  LET n == IF wild(pattern) THEN Len(pattern) - 1 ELSE Len(pattern)
      upto[i \in 0..n] ==
        IF i = 0 THEN 0
        ELSE IF upto[i - 1] = -1 \/ i > Len(request) \/ ~Fits(pattern[i], request[i]) THEN -1
        ELSE upto[i - 1] + (IF Literal(pattern[i]) THEN 1 ELSE 0)
  IN IF wild(pattern) \/ Len(request) = n THEN upto[n] ELSE -1

NoRoute == [id |-> 0]

\* As if the last of two equal wildcards won.
Better_LastWild(method, uri, best, r) ==
  LET score == match_segments(r.path, uri.path)
  IN IF \/ best # NoRoute /\ ~wild(best.path)
        \/ r.method # method \/ score = -1
        \/ wild(r.path) /\ best # NoRoute /\ score < match_segments(best.path, uri.path)
     THEN best ELSE r

\* One more of the dynamic routes: the first without a wildcard ends the search;
\* of the wildcards, the one with most literal segments is kept.
Better(method, uri, best, r) ==
  LET score == match_segments(r.path, uri.path)
  IN IF \/ best # NoRoute /\ ~wild(best.path)
        \/ r.method # method \/ score = -1
        \/ wild(r.path) /\ best # NoRoute /\ score <= match_segments(best.path, uri.path)
     THEN best ELSE r

\* find_handler(): exact, then parameters in registration order, then the
\* wildcard with most literal segments.
find_handler(method, uri) ==
  LET key == <<method, uri.path>>
      found[k \in 0..Len(dynamic_routes_)] ==
        IF k = 0 THEN NoRoute ELSE Better(method, uri, found[k - 1], dynamic_routes_[k])
  IN IF uri.tidy /\ key \in DOMAIN routes_ THEN routes_[key] ELSE found[Len(dynamic_routes_)]

\* route(): the handler, HEAD falling back on GET; without one, the methods of
\* the Allow header, or 404.
Chosen(method, uri) ==
  IF find_handler(method, uri) = NoRoute /\ method = "HEAD" THEN find_handler("GET", uri) ELSE find_handler(method, uri)

Allow(uri) == {m \in Methods : find_handler(m, uri) # NoRoute \/ (m = "HEAD" /\ find_handler("GET", uri) # NoRoute)}

\* The middleware a request runs through: the app's, under its prefix, then the
\* route's.
RanFor(method, uri) ==
  LET ran[k \in 0..Len(middlewares_)] ==
        IF k = 0 THEN << >>
        ELSE IF IsPrefix(middlewares_[k], uri.path) THEN Append(ran[k - 1], middlewares_[k]) ELSE ran[k - 1]
  IN ran[Len(middlewares_)] \o (IF Chosen(method, uri) = NoRoute THEN << >> ELSE Chosen(method, uri).mws)

\* handle_exception(): the innermost handler along the chain of scopes.
ErrorHandlerOf(g) ==
  LET up[h \in Groups_] == IF h \in handlers THEN h ELSE IF h = "root" THEN "none" ELSE up[Enclosing[h]]
  IN up[g]

\* is_stream_route(): what is marked without parameters is looked up by its text.
is_stream_route(method, uri) ==
  \E s \in streams : /\ s[1] = method
                     /\ IF static(s[2]) THEN uri.tidy /\ s[2] = uri.path ELSE match_segments(s[2], uri.path) >= 0

validate_routes == {k \in {<<r.method, r.path>> : r \in ToSet(registered)} :
                      Cardinality({i \in DOMAIN registered : <<registered[i].method, registered[i].path>> = k}) > 1}

RtNext ==
  \/ \E g \in Groups_, method \in {"GET", "POST"}, path \in RtPatterns : Register(g, method, path)
  \/ \E path \in RtPatterns : add_stream_route("outer", "POST", path)
  \/ \E g \in Groups_ : on_error(g)
  \/ ws("outer", <<"a">>) \/ use("inner", << >>) \/ use("root", <<"a">>)

RtSpec == RtInit /\ [][RtNext]_rtVars

RtTypeOK == /\ DOMAIN routes_ \subseteq Methods \X Seq(Names)
            /\ Len(dynamic_routes_) <= Len(registered) /\ handlers \subseteq Groups_

\* The reference: of the registrations that cover a request, exact ones come
\* before parameters before wildcards; of two of a kind the later exact one,
\* the earlier one with parameters, the wildcard that fixes more, then the
\* earlier.
Covers(r, method, uri) ==
  LET k == IF wild(r.path) THEN Len(r.path) - 1 ELSE Len(r.path)
  IN /\ r.method = method
     /\ IF wild(r.path) THEN k <= Len(uri.path) ELSE k = Len(uri.path)
     /\ \A i \in 1..k : Fits(r.path[i], uri.path[i])
     /\ static(r.path) => uri.tidy

Fixed(r) == Cardinality({i \in DOMAIN r.path : Literal(r.path[i])})
Kind(r) == IF static(r.path) THEN 0 ELSE IF wild(r.path) THEN 2 ELSE 1
Before(r, s) ==
  \/ Kind(r) < Kind(s)
  \/ Kind(r) = Kind(s) /\ CASE Kind(r) = 0 -> r.id > s.id
                            [] Kind(r) = 1 -> r.id < s.id
                            [] Kind(r) = 2 -> Fixed(r) > Fixed(s) \/ (Fixed(r) = Fixed(s) /\ r.id < s.id)
Best(method, uri) ==
  LET all == {r \in ToSet(registered) : Covers(r, method, uri)}
  IN IF all = {} THEN NoRoute ELSE CHOOSE r \in all : \A s \in all \ {r} : Before(r, s)

\* Whatever was registered where and in which order: a request gets the
\* handler of the reference; Allow names exactly the methods that would be
\* answered; a handler registered as streaming is always known to stream
\* before the body is read; no middleware runs outside the group or prefix it
\* was added for; a static route that another one hides is reported; an
\* exception goes to a handler of the route's own group or one around it, the
\* nearest that has one (Router.cpp:420, find_handler).
RoutedAsRegistered ==
  /\ RtTypeOK
  /\ registered # << >> => \A uri \in RtPaths :
       LET allow == Allow(uri)
       IN \A m \in Methods :
         LET r == Chosen(m, uri)
         IN /\ r = IF m = "HEAD" /\ Best(m, uri) = NoRoute THEN Best("GET", uri) ELSE Best(m, uri)
            /\ (r # NoRoute) = (m \in allow)
            /\ (r # NoRoute /\ <<m, r.path>> \in streams) => is_stream_route(m, uri)
            /\ \A p \in ToSet(RanFor(m, uri)) : IsPrefix(p, uri.path)
  /\ \A r \in ToSet(registered) :
       /\ Kind(r) = 0 /\ find_handler(r.method, [path |-> r.path, tidy |-> TRUE]) # r => <<r.method, r.path>> \in validate_routes
       /\ LET e == ErrorHandlerOf(r.errors)
          IN e # "none" => e \in handlers /\ IsPrefix(Prefix[e], r.path)
                             /\ \A h \in handlers : Len(Prefix[h]) > Len(Prefix[e]) => Len(Prefix[h]) > Len(Prefix[r.errors])
====
