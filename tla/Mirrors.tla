------------------------------ MODULE Mirrors ------------------------------
(***************************************************************************)
(* The mirror registry a command makes of its configuration                *)
(* (internal/mirrors, NewRegistry).                                        *)
(***************************************************************************)
EXTENDS Lists

CONSTANTS Builtins,    \* the built-in mirrors, in order: [name, url, fallback]
          Priorities,  \* the mirror_priority lists the configuration may hold
          Customs      \* the custom_mirrors lists it may hold

ASSUME BuiltinsAssumption == Builtins \in Seq(ToSet(Builtins))

\* The built-ins named by the first k entries of mirror_priority, each once, in
\* its order.
PreferredUpTo(pri) ==
    LET P[k \in 0 .. Len(pri)] ==
          IF k = 0 THEN <<>>
          ELSE P[k - 1] \o Those(Builtins, {m \in ToSet(Builtins) : m.name = pri[k]} \ ToSet(P[k - 1]))
    IN  P

Preferred(pri) == PreferredUpTo(pri)[Len(pri)]

FallbackLast(ms) ==
    LET fallback == {m \in ToSet(ms) : m.fallback}
    IN  Those(ms, ToSet(ms) \ fallback) \o Those(ms, fallback)

\* Mutant: a built-in that mirror_priority does not mention is dropped.
NewRegistryMentioned(pri, cust) == FallbackLast(Preferred(pri) \o cust)

\* Then the other built-ins, then the custom mirrors; the fallback ones last.
NewRegistry(pri, cust) ==
    LET others == Those(Builtins, ToSet(Builtins) \ ToSet(Preferred(pri)))
    IN  FallbackLast(Preferred(pri) \o others \o cust)

Names == {m.name : m \in ToSet(Builtins)} \cup
         UNION {{m.name : m \in ToSet(c)} : c \in Customs}
-----------------------------------------------------------------------------
\* The list names m, and names n later or never.
RanksBefore(priority, m, n) ==
    \E k \in 1 .. Len(priority) : /\ priority[k] = m.name
                                  /\ \A j \in 1 .. k : priority[j] # n.name

\* What a registry should be: every built-in and every custom mirror is in it
\* once, no fallback mirror before another, and the built-ins the user ranked
\* come in the user's order, before those left unranked.
InUsersOrder(registry, priority, custom) ==
    /\ ToSet(registry) = ToSet(Builtins) \cup ToSet(custom)
    /\ Len(registry) = Len(Builtins) + Len(custom)
    /\ \A j, k \in 1 .. Len(registry) : registry[j].fallback /\ ~registry[k].fallback => k < j
    /\ \A m, n \in ToSet(Builtins) :
          m.fallback = n.fallback /\ RanksBefore(priority, m, n) => Precedes(registry, m, n)
=============================================================================
