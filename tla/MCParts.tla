------------------------------ MODULE MCParts -------------------------------
(* Four parts that share no state, each checked by itself: a behaviour is a *)
(* behaviour of one of them.                                                *)
EXTENDS ConfigFiles, Router, AutoCorrect, EchoConnection, SequencesExt

VARIABLE part   \* the part this behaviour is of

(* Lines of every key, with values on both sides of each check. *)
Line(key, vals) == {[key |-> key, val |-> v] : v \in vals}

Numerals(values) == [number : {TRUE}, rest : {FALSE}, value : values]
Addresses == [colon : {TRUE}, host : {"", "ip"}, port : Numerals({0, 80})]
             \cup [colon : BOOLEAN, host : {"ip"}, port : Numerals({65535, 65616})]
Texts == UNION {[1 .. n -> {"quote", "blank", "x"}] : n \in {0, 3}}
Typos == [number : BOOLEAN, rest : {TRUE}, value : {80}]
Layout == {[key |-> k, val |-> ""] : k \in {"#", "[]", "[", "-", "unknown"}}

MCLines == [
  routes |-> Layout \cup Line("host", [name : {"h"}, capital : BOOLEAN, port : BOOLEAN])
             \cup Line("path", {<<>>, <<"/", "a">>}) \cup Line("backend", Addresses \cup [colon : {TRUE}, host : {"ip"}, port : Typos]),
  services |-> Layout \cup Line("exec", {"", "relative", "absolute"}) \cup Line("args", Texts)
               \cup Line("workdir", {"dir"}) \cup Line("autorestart", {"on", "off", "maybe"})
               \cup Line("health_tcp", Addresses)
               \cup Line("health_interval", Typos \cup Numerals({-1}))
               \cup Line("backoff_min", Numerals({-32768, 32767, 32768}))
               \cup Line("backoff_max", Numerals({65536, 200000}))]
MCMaxFile == [routes |-> 5, services |-> 4]

(* Tables of up to three routes; every Host spelling, paths around each prefix. *)
MCRoutes == [host : {AnyHost, [name |-> "h", port |-> "yes", spelling |-> "lower"]}
                    \cup [name : {"g", "h"}, port : {"no"}, spelling : {"lower"}],
             path : {<<"/">>, <<"/", "a">>, <<"/", "a", "/">>}]
MCTables == UNION {[1 .. n -> MCRoutes] : n \in 0 .. 3}
MCRequests == [host : [name : {"h"}, port : {"yes", "no"}, spelling : {"lower", "mixed"}] \cup {AnyHost},
               path : {<<"/">>, <<"/", "a", "a">>, <<"/", "a", "/">>}]

(* The filter of dispatch_command. *)
MCDictionary == <<
  <<"h","e","l","p">>, <<"p","i","n","g">>, <<"s","t","a","t","u","s">>, <<"s","t","a","t","s">>,
  <<"h","e","a","l","t","h">>, <<"e","r","r","o","r","s">>, <<"s","e","r","v","i","c","e","s">>,
  <<"b","a","c","k","e","n","d","s">>, <<"r","e","s","t","a","r","t">>,
  <<"s","h","u","t","d","o","w","n">>, <<"e","x","i","t">>, <<"q","u","i","t">>,
  <<"s","y","s","t","e","m","s","t","a","t","u","s">>,
  <<"b","a","c","k","e","n","d","s","t","a","t","u","s">>, <<"c","l","e","a","r">>
  >>

(* Its synonyms: status and stats, services and backends, exit and quit. *)
SameCommand(v, w) ==
  v = w \/ \E k \in {3, 7, 11} : {v, w} = {dictionary[k], dictionary[k + 1]}

(* Two neighbouring letters swapped, a letter left out, a letter doubled. *)
SlipsOf(w) ==
  {[w EXCEPT ![i] = w[i + 1], ![i + 1] = w[i]] : i \in 1 .. Len(w) - 1}
  \cup {RemoveAt(w, i) : i \in 1 .. Len(w)}
  \cup {InsertAt(w, i, w[i]) : i \in 1 .. Len(w)}

(* README: a command that is mistyped by one such slip is answered with the  *)
(* command that was meant, or a synonym of it ("statts" gives status), and   *)
(* with no other command that happens to be near.                            *)
SlipCorrected ==
  left = {} =>
    \A w \in Commands : typed \in SlipsOf(w) \ Commands => SameCommand(bestMatch.word, w)

(* Every slip, every other letter in every place, and a byte that is none. *)
MCTyped == UNION {SlipsOf(w) \cup {[w EXCEPT ![i] = x] : i \in 1 .. Len(w),
                                                       x \in Letters \cup {"?"}} : w \in Commands}

RIdle == routes = <<>> /\ request = [host |-> AnyHost, path |-> <<"/">>] /\ at = 1 /\ best = 0
ACIdle == typed = <<>> /\ left = {} /\ bestMatch = [word |-> <<>>, dist |-> SizeMax]
CIdle == kind = "routes" /\ file = <<>> /\ result = <<>> /\ phase = "reading" /\ table = <<>>

Init ==
  /\ EInit
  /\ \/ part = "files" /\ CInit /\ RIdle /\ ACIdle
     \/ part = "router" /\ CIdle /\ RInit /\ ACIdle
     \/ part = "words" /\ CIdle /\ RIdle /\ ACInit
     \/ part = "echo" /\ CIdle /\ RIdle /\ ACIdle

Next ==
  /\ UNCHANGED part
  /\ \/ part = "files" /\ CNext /\ UNCHANGED <<routerVars, acVars, echoVars>>
     \/ part = "router" /\ RNext /\ UNCHANGED <<cfgVars, acVars, echoVars>>
     \/ part = "words" /\ ACNext /\ UNCHANGED <<cfgVars, routerVars, echoVars>>
     \/ part = "echo" /\ ENext /\ UNCHANGED <<cfgVars, routerVars, acVars>>

Spec == Init /\ [][Next]_<<part, cfgVars, routerVars, acVars, echoVars>>
=============================================================================
