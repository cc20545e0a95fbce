------------------------------ MODULE MCRequests ------------------------------
(* A small instance of Requests for TLC: two instances of one program, a   *)
(* second of 8 units in a duration of 8 bits, so that 32 seconds are zero, *)
(* 33 are one, 17 are negative and -20 are positive; two requests, with a  *)
(* user and without one, that add, edit and refresh.                       *)
EXTENDS Requests, TLC

Texts == {"", " ", "srv_a", " srv_b ", "cli_a", "Memory", "memory", "filesystem", "NULL",
          "null", "redis", "/tmp ", "eu/", "/", "10", "32", "33", "17", "-20", "soon",
          "Off", "maybe"}
MCTrim == (" " :> "" @@ " srv_b " :> "srv_b" @@ "/tmp " :> "/tmp") @@ [t \in Texts |-> t]
MCLower == ("Memory" :> "memory" @@ "NULL" :> "null" @@ "Off" :> "off") @@ [t \in Texts |-> t]
MCTrimSlash == ("eu/" :> "eu" @@ "/" :> "") @@ [t \in Texts |-> t]
MCAtoi == "10" :> 10 @@ "32" :> 32 @@ "33" :> 33 @@ "17" :> 17 @@ "-20" :> -20
MCServerTokens == {"srv_a", "srv_b"}

Env(token, ttl, backend, dir, reporting, endpoint) ==
  [token |-> token, ttl |-> ttl, backend |-> backend, dir |-> dir,
   reporting |-> reporting, endpoint |-> endpoint]
ServedEnvironments == {Env("srv_a", "10", "", "", "Off", "eu/"),
                       Env("srv_a", "10", "NULL", "", "", "")}
MCEnvironments ==
  ServedEnvironments
  \union {Env("srv_a", t, "", "", "", "eu/") : t \in {"32", "33", "17", "-20", "soon", " "}}
  \union {Env(" srv_b ", "", "filesystem", d, "", "/") : d \in {"/tmp ", " "}}
  \union {Env("", "10", "redis", "", "maybe", "")}

MCTokens == {"srv_a", " srv_b ", "cli_a"}
MCDurations == {0, -1, 20}
MCBackends == {"Memory", "filesystem", "NULL", "redis", ""}
MCDirectories == {"/tmp ", ""}
MCEndpoints == {"eu/", "/"}
MCCustomCaches == {<<"custom", 1>>}

InMemory == Build(ConfigFromEnvironment(Env("srv_a", "10", "", "", "Off", "eu/")), 1)
Uncached == Build(ConfigFromEnvironment(Env("srv_a", "10", "NULL", "", "", "")), 1)

\* A handler with so many managers of its own, that adds so many attributes and
\* makes so many calls, at most.
Does(user, managers_, adds_, calls_) ==
  [user |-> user, managers |-> managers_, adds |-> adds_, calls |-> calls_,
   edits |-> FALSE, refreshes |-> FALSE]
Editing(d)    == [d EXCEPT !.edits = TRUE]
Refreshing(d) == [d EXCEPT !.refreshes = TRUE]
Program(served, does, given, added) ==
  [served |-> served, does |-> does, given |-> given, added |-> added]

\* Requests that edit, and refresh what they share; one that derives managers from
\* the injected one and from each other, and refreshes them, alone and next to one
\* that derives from the root and refreshes it; and requests that add to a context
\* of no attribute, of one, and of three in an array of four, and report it, while
\* none asks for flags or one does.
Pair(a, b) == {f \in [Handler -> {a, b}] : \A d \in {a, b} : \E h \in Handler : f[h] = d}
Sharing  == [Handler -> {Editing(Does(FALSE, 0, 0, 2)), Editing(Does(TRUE, 1, 0, 2)),
                         Refreshing(Does(FALSE, 0, 0, 2))}]
Deriving == Pair(Refreshing(Does(TRUE, 3, 0, 3)), Does(FALSE, 0, 0, 0))
            \union Pair(Refreshing(Does(TRUE, 2, 0, 2)), Refreshing(Does(FALSE, 1, 0, 1)))
Adding   == Pair(Does(TRUE, 2, 1, 1), Does(TRUE, 2, 1, 0))
            \union [Handler -> {Does(TRUE, 2, 2, 0)}]
MCTraffic ==
  {Program(s, f, << >>, << >>) : s \in {InMemory, Uncached}, f \in Sharing}
  \union {Program(InMemory, f, << >>, << >>) : f \in Deriving}
  \union {Program(Uncached, f, a[1], a[2]) :
            f \in Adding, a \in {<< << >>, << >> >>, << <<"base">>, << >> >>,
                                 << <<"base", "base">>, <<"base">> >>}}
HandlerSymmetry == Permutations(Handler)
=============================================================================
