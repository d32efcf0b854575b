---------------------------- MODULE MCDeckInPlay ----------------------------
(***************************************************************************)
(* Small scale files: the long one is ample and has two related pairs, the *)
(* short ones are the smallest that are accepted and near misses.  Words   *)
(* are strings; the odd environments come with a short file only.          *)
(***************************************************************************)
EXTENDS DeckInPlay

CONSTANTS LastOfLongFile

Words == <<"cold", "hot", "warm", "old", "new", "big", "small", "dark", "light",
           "fast", "slow", "loud", "still", "good", "bad">>

\* The first two pairs share "hot".
LongFile ==
  <<<<"cold", "hot">>, <<"hot", "warm">>>>
    \o [i \in 1..(LastOfLongFile - 2) |-> <<Words[2 * i + 2], Words[2 * i + 3]>>]

Embedded  == <<<<"cold", "hot">>, <<"old", "new">>>>
Related   == <<<<"cold", "hot">>, <<"hot", "warm", "surplus">>, <<"old", "new">>>>
TooShort  == <<<<"cold", "hot">>>>
Duplicate == <<<<"cold", "hot">>, <<"hot", "cold">>>>
OneWord   == <<<<"cold", "hot">>, <<"old">>>>
Blank     == <<<<"cold", "hot">>, <<"old", " ">>>>
SameTwice == <<<<"cold", "hot">>, <<"old", "old">>>>

Files == {NoPath, Unreadable, LongFile, Related, TooShort, Duplicate, OneWord, Blank, SameTwice}
OddEnvironments ==
  {[port |-> 65536], [port |-> 65535, logFormat |-> "text"], [logFormat |-> "xml"],
   [maxPlayers |-> 1], [maxPlayers |-> 2], [maxLobbies |-> 0], [maxLobbies |-> Unparsable],
   [lobbyTTL |-> 0], [lobbyTTL |-> 60, shutdownTimeout |-> Unparsable], [shutdownTimeout |-> -1]}

MCLaunches ==
  {[command |-> c, env |-> <<>>, mounted |-> f] :
     c \in {"serve", "validate-scales"}, f \in Files}
  \cup {[command |-> c, env |-> e, mounted |-> NoPath] :
     c \in {"version", "dump-scales", "serve"}, e \in OddEnvironments}

Keys(file) == {PairKey(AsPair(file[i])) : i \in DOMAIN file}
MCPairs == UNION {Keys(f) : f \in {LongFile, Embedded, Related}}
MCSharedWord == {w \in SUBSET MCPairs :
                   Cardinality(w) = 2 /\ \A p, q \in w : p \cap q # {}}
=============================================================================
