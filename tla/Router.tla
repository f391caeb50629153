------------------------------- MODULE Router -------------------------------
(***************************************************************************)
(* Router::match: the walk over the routing table that picks the route of  *)
(* a request.  The table does not change after load (see ConfigFiles), so  *)
(* the worker threads share it without a lock and one request is enough.   *)
(*                                                                         *)
(* A host text has a name, a port or none, and capital letters or none; a  *)
(* path is a sequence of characters.                                       *)
(***************************************************************************)
EXTENDS Integers, Sequences

CONSTANTS
  Names,     \* host names
  Chars,     \* characters of a path
  Tables,    \* the tables load may leave in routes_
  Requests   \* the Host headers and paths of requests

AnyHost == [name |-> "", port |-> "no", spelling |-> "lower"]

(* load() has lowered the host of a route; it may still have a port. *)
Route == [host : {AnyHost} \cup [name : Names, port : {"yes", "no"}, spelling : {"lower"}],
          path : Seq(Chars)]

Request == [host : [name : Names \cup {""}, port : {"yes", "no"}, spelling : {"lower", "mixed"}],
            path : Seq(Chars)]

ASSUME RouterAssumption ==
  /\ "" \notin Names
  /\ Tables \subseteq Seq(Route)
  /\ Requests \subseteq Request

VARIABLES
  routes,    \* routes_
  request,   \* host and path
  at,        \* the next route the loop looks at
  best       \* the best route so far, 0 for nullptr

routerVars == <<routes, request, at, best>>

RInit == routes \in Tables /\ request \in Requests /\ at = 1 /\ best = 0

(* The Host header without its port, lowered. *)
Normalized(host) == [name |-> host.name, port |-> "no", spelling |-> "lower"]

StartsWith(path, prefix) ==
  Len(prefix) <= Len(path) /\ \A i \in 1 .. Len(prefix) : path[i] = prefix[i]

Applies(r) ==
  /\ r.host = AnyHost \/ r.host = Normalized(request.host)
  /\ StartsWith(request.path, r.path)

(* Mutant: a later route of the same length wins. *)
BeatsLater(r, b) == Len(r.path) >= Len(b.path)

(* Longer prefix, or the same length with a host where the best has none. *)
Beats(r, b) ==
  \/ Len(r.path) > Len(b.path)
  \/ Len(r.path) = Len(b.path) /\ b.host = AnyHost /\ r.host # AnyHost

(* One round of the loop. *)
LookAtRoute ==
  /\ at <= Len(routes)
  /\ best' = IF Applies(routes[at]) /\ (best = 0 \/ Beats(routes[at], routes[best]))
             THEN at ELSE best
  /\ at' = at + 1
  /\ UNCHANGED <<routes, request>>

RNext == LookAtRoute

RSpec == RInit /\ [][RNext]_routerVars
-----------------------------------------------------------------------------
RTypeOK ==
  /\ routes \in Seq(Route) /\ request \in Request
  /\ at \in 1 .. Len(routes) + 1 /\ best \in 0 .. at - 1

(* The routes of the table that serve the request: for any host, or for the  *)
(* name in its Host header however that is spelled.                          *)
Serves(i) ==
  /\ \/ routes[i].host = AnyHost
     \/ routes[i].host.name = request.host.name /\ routes[i].host.port = "no"
  /\ StartsWith(request.path, routes[i].path)

Rank(i) ==
  IF routes[i].host = AnyHost THEN 2 * Len(routes[i].path) ELSE 2 * Len(routes[i].path) + 1

(* Of the routes up to n, `best` is the most specific one that serves the     *)
(* request, the first among equals; 0 when none does.                        *)
BestOf(n) ==
  IF best = 0 THEN \A i \in 1 .. n : ~Serves(i)
  ELSE /\ Serves(best)
       /\ \A i \in 1 .. n :
            Serves(i) => Rank(i) < Rank(best) \/ (Rank(i) = Rank(best) /\ best <= i)

(* match() returns, of all routes that serve the request, the one with the   *)
(* longest prefix, one with a host before one without at equal length, and   *)
(* the first in the file among equals; nullopt only when none serves it.     *)
MostSpecific == at = Len(routes) + 1 => BestOf(Len(routes))
=============================================================================
