------------------------------ MODULE MCMetering ------------------------------
(***************************************************************************)
(* Instances of Metering for TLC: a first version that prices the route,   *)
(* a second that changes the price and adds a route, and a third that does *)
(* not parse, with which no service can start.                             *)
(***************************************************************************)
EXTENDS Metering, TLC

MCText == {"", " ", "GET", "get", " get ", "POST", "/a", " /a", "a"}

MCTrim == [t \in MCText |->
    CASE t = " " -> "" [] t = " get " -> "get" [] t = " /a" -> "/a" [] OTHER -> t]

MCToUpper == [t \in MCText |->
    CASE t = "get" -> "GET" [] t = " get " -> "GET" [] OTHER -> t]

MCRooted == {"/a"}

Rule(method, path, price) == [method |-> method, path |-> path, price |-> price]

MCDocument ==
    << <<Rule("GET", "/a", 1)>>,
       <<Rule(" get ", " /a", 4), Rule("POST", "/a", 5)>>,
       <<Rule("GET", "/a", 1), Rule(" get ", " /a", 2)>> >>

\* No method, no path, no price, and one beyond i128.
MCRefused ==
    {<<>>, <<Rule("", "/a", 1)>>, <<Rule("GET", "a", 1)>>, <<Rule("GET", "/a", -1)>>,
     <<Rule("GET", "/a", NotANumber)>>, <<Rule("GET", "/a", MaxI128 + 1)>>}

ASSUME \A doc \in MCRefused : ~Parses(doc)

MCRoute == {[method |-> m, path |-> "/a"] : m \in {"GET", "get", "POST"}}

Sent(method, consumer, protocol, channel) ==
    [route |-> [method |-> method, path |-> "/a"],
     info |-> [consumer |-> consumer, channel |-> channel, protocol |-> protocol]]

\* A call of each route and protocol; without RequestInfo, without a consumer,
\* of a protocol nobody knows, and with or without a channel for the wrong one.
MCCall ==
    {Sent("GET", "set", "x402", ""), Sent("get", "set", "mpp_session", "set"),
     Sent("POST", "set", "mpp_charge", ""),
     [route |-> [method |-> "GET", path |-> "/a"], info |-> None],
     Sent("GET", "", "x402", ""), Sent("GET", "set", "other", ""),
     Sent("GET", "set", "mpp_session", ""), Sent("POST", "set", "mpp_charge", "set")}

Symmetric == Permutations(Request)

=============================================================================
