----------------------------- MODULE CommandProofs -----------------------------
(***************************************************************************)
(* Theorems about the commands of the indexer's binary beside its loops:   *)
(* how create-db and create-user leave the database, for every number of   *)
(* runs, chains, users and lost answers; and how live and historic end,    *)
(* for every number of writers, heights, signals and failures.             *)
(***************************************************************************)
EXTENDS DbSetup, Shutdown, TLAPS

-----------------------------------------------------------------------------
(* create-db: the script *)

Kinds == {"database", "type", "enum", "value", "table", "hypertable",
          "view", "columnstore", "policy", "interval", "realtime"}
Names == {"new", "chain_name"} \cup ToSet(SpecialTypes) \cup ToSet(RegularTables)
         \cup ToSet(Hypertables) \cup ToSet(AllAggregates)
Statements == Kinds \X (Names \cup Chains)

\* The statements of a list, of a kind.
LEMMA EachFacts ==
    ASSUME NEW kind \in Kinds, NEW names \in Seq(Names)
    PROVE  /\ Each(kind, names) \in Seq(Statements) /\ Len(Each(kind, names)) = Len(names)
           /\ \A i \in 1 .. Len(names) : Each(kind, names)[i] = <<kind, names[i]>>
<1>1. Each(kind, names) = [i \in 1 .. Len(names) |-> <<kind, names[i]>>]
  BY DEF Each
<1>2. \A i \in 1 .. Len(names) : <<kind, names[i]>> \in Statements
  BY DEF Statements
<1> QED
  BY <1>1, <1>2

\* A function on 1 .. n is a sequence.
LEMMA Listed ==
    ASSUME NEW S, NEW n \in Nat, NEW f \in [1 .. n -> S]
    PROVE  f \in Seq(S) /\ Len(f) = n
  OBVIOUS

\* The lists of pkgs/schema are lists of names.
LEMMA Lists ==
    /\ SpecialTypes \in Seq(Names) /\ Len(SpecialTypes) = 3
    /\ RegularTables \in Seq(Names) /\ Len(RegularTables) = 4
    /\ Hypertables \in Seq(Names) /\ Len(Hypertables) = 13
    /\ AllAggregates \in Seq(Names) /\ Len(AllAggregates) = 5
    /\ AllAggregates \in [1 .. 5 -> Names]
<1>1. SpecialTypes \in [1 .. 3 -> Names] /\ 3 \in Nat
  <2>1. SpecialTypes \in [1 .. 3 -> ToSet(SpecialTypes)]
    BY DEF SpecialTypes, ToSet
  <2> QED
    BY <2>1 DEF Names
<1>2. RegularTables \in [1 .. 4 -> Names] /\ 4 \in Nat
  <2>1. RegularTables \in [1 .. 4 -> ToSet(RegularTables)]
    BY DEF RegularTables, ToSet
  <2> QED
    BY <2>1 DEF Names
<1>3. Hypertables \in [1 .. 13 -> Names] /\ 13 \in Nat
  <2>1. Hypertables \in [1 .. 13 -> ToSet(Hypertables)]
    BY DEF Hypertables, ToSet
  <2> QED
    BY <2>1 DEF Names
<1>4. AllAggregates \in [1 .. 5 -> Names] /\ 5 \in Nat
  <2>1. AllAggregates \in [1 .. 5 -> ToSet(AllAggregates)]
    BY DEF AllAggregates, ToSet
  <2> QED
    BY <2>1 DEF Names
<1> QED
  BY <1>1, <1>2, <1>3, <1>4, Listed, Zenon

\* Every view has its five statements, one after the other.
LEMMA AggregateFacts ==
    /\ AggregateStatements \in Seq(Statements) /\ Len(AggregateStatements) = 25
    /\ \A i \in 1 .. 25 : \E v \in 1 .. 5, n \in 1 .. 5 :
         /\ i = 5 * (v - 1) + n
         /\ AggregateStatements[i] = ViewStatements(AllAggregates[v])[n]
<1>1. AggregateStatements = [i \in 1 .. 25 |->
         ViewStatements(AllAggregates[1 + ((i - 1) \div 5)])[1 + ((i - 1) % 5)]]
  BY Lists DEF AggregateStatements
<1>2. \A i \in 1 .. 25 : \E v \in 1 .. 5, n \in 1 .. 5 :
         /\ i = 5 * (v - 1) + n
         /\ v = 1 + ((i - 1) \div 5) /\ n = 1 + ((i - 1) % 5)
  <2> TAKE i \in 1 .. 25
  <2> DEFINE v == 1 + ((i - 1) \div 5)
             n == 1 + ((i - 1) % 5)
  <2>1. v \in 1 .. 5 /\ n \in 1 .. 5 /\ i = 5 * (v - 1) + n
    OBVIOUS
  <2> QED
    BY <2>1
<1>3. \A v \in 1 .. 5, n \in 1 .. 5 : ViewStatements(AllAggregates[v])[n] \in Statements
  <2>1. \A v \in 1 .. 5 : AllAggregates[v] \in Names
    BY Lists
  <2> QED
    BY <2>1 DEF ViewStatements, Statements, Kinds
<1> HIDE DEF AggregateStatements
<1>4. \A i \in 1 .. 25 : \E v \in 1 .. 5, n \in 1 .. 5 :
         /\ i = 5 * (v - 1) + n
         /\ AggregateStatements[i] = ViewStatements(AllAggregates[v])[n]
  <2> TAKE i \in 1 .. 25
  <2>1. PICK v \in 1 .. 5, n \in 1 .. 5 :
          i = 5 * (v - 1) + n /\ v = 1 + ((i - 1) \div 5) /\ n = 1 + ((i - 1) % 5)
    BY <1>2
  <2>2. AggregateStatements[i] = ViewStatements(AllAggregates[v])[n]
    BY <1>1, <2>1
  <2> QED
    BY <2>1, <2>2
<1>5. \A i \in 1 .. 25 : AggregateStatements[i] \in Statements
  BY <1>3, <1>4
<1>6. AggregateStatements \in [1 .. 25 -> Statements]
  BY <1>1, <1>5
<1>7. AggregateStatements \in Seq(Statements) /\ Len(AggregateStatements) = 25
  <2>1. 25 \in Nat
    OBVIOUS
  <2> QED
    BY <1>6, <2>1, Listed, Zenon
<1> QED
  BY <1>4, <1>7

\* Two lists one after the other.
LEMMA Joined ==
    ASSUME NEW s \in Seq(Statements), NEW t \in Seq(Statements)
    PROVE  /\ s \o t \in Seq(Statements) /\ Len(s \o t) = Len(s) + Len(t)
           /\ \A i \in 1 .. Len(s) : (s \o t)[i] = s[i]
           /\ \A i \in 1 .. Len(t) : (s \o t)[Len(s) + i] = t[i]
  OBVIOUS

\* Where each statement stands.
ScriptPlaces(s, c) ==
    /\ s[1] = <<"database", "new">>
    /\ s[2] = <<"type", "amount">> /\ s[3] = <<"type", "attribute">> /\ s[4] = <<"type", "event">>
    /\ s[5] = <<"enum", "chain_name">> /\ s[6] = <<"value", c>>
    /\ \A i \in 1 .. 4 : s[6 + i] = <<"table", RegularTables[i]>>
    /\ \A i \in 1 .. 13 : s[10 + i] = <<"hypertable", Hypertables[i]>>
    /\ \A i \in 1 .. 25 : s[23 + i] = AggregateStatements[i]
    /\ s[11] = <<"hypertable", "blocks">>

LEMMA ScriptFacts ==
    ASSUME NEW c \in Chains
    PROVE  /\ Script[c] \in Seq(Statements) /\ Len(Script[c]) = 48
           /\ ScriptPlaces(Script[c], c)
<1> DEFINE p1 == <<<<"database", "new">>>>
           p2 == Each("type", SpecialTypes)
           p3 == <<<<"enum", "chain_name">>, <<"value", c>>>>
           p4 == Each("table", RegularTables)
           p5 == Each("hypertable", Hypertables)
           p6 == AggregateStatements
           q2 == p1 \o p2
           q3 == q2 \o p3
           q4 == q3 \o p4
           q5 == q4 \o p5
           q6 == q5 \o p6
<1>1. p1 \in Seq(Statements) /\ Len(p1) = 1 /\ p1[1] = <<"database", "new">>
  BY DEF Statements, Kinds, Names
<1>2. p2 \in Seq(Statements) /\ Len(p2) = 3 /\ \A i \in 1 .. 3 : p2[i] = <<"type", SpecialTypes[i]>>
  BY EachFacts, Lists DEF Kinds
<1>3. p3 \in Seq(Statements) /\ Len(p3) = 2
      /\ p3[1] = <<"enum", "chain_name">> /\ p3[2] = <<"value", c>>
  BY DEF Statements, Kinds, Names
<1>4. p4 \in Seq(Statements) /\ Len(p4) = 4 /\ \A i \in 1 .. 4 : p4[i] = <<"table", RegularTables[i]>>
  BY EachFacts, Lists DEF Kinds
<1>5. p5 \in Seq(Statements) /\ Len(p5) = 13
      /\ \A i \in 1 .. 13 : p5[i] = <<"hypertable", Hypertables[i]>>
  <2>1. Hypertables \in Seq(Names) /\ Len(Hypertables) = 13 /\ "hypertable" \in Kinds
    BY Lists DEF Kinds
  <2> QED
    BY <2>1, EachFacts, Zenon
<1>6. p6 \in Seq(Statements) /\ Len(p6) = 25
  BY AggregateFacts
<1>7. Script[c] = q6
  BY DEF Script
<1> HIDE DEF p1, p2, p3, p4, p5, p6
<1>8. /\ q2 \in Seq(Statements) /\ Len(q2) = 4
      /\ \A i \in 1 .. 1 : q2[i] = p1[i]
      /\ \A i \in 1 .. 3 : q2[1 + i] = p2[i]
  <2>1. p1 \in Seq(Statements) /\ p2 \in Seq(Statements)
    BY <1>1, <1>2
  <2>2. /\ q2 \in Seq(Statements) /\ Len(q2) = Len(p1) + Len(p2)
        /\ \A i \in 1 .. Len(p1) : q2[i] = p1[i]
        /\ \A i \in 1 .. Len(p2) : q2[Len(p1) + i] = p2[i]
    BY <2>1, Joined
  <2> HIDE DEF q2
  <2> QED
    BY <1>1, <1>2, <2>2
<1> HIDE DEF q2
<1>9. /\ q3 \in Seq(Statements) /\ Len(q3) = 6
      /\ \A i \in 1 .. 4 : q3[i] = q2[i]
      /\ \A i \in 1 .. 2 : q3[4 + i] = p3[i]
  <2>1. q2 \in Seq(Statements) /\ p3 \in Seq(Statements)
    BY <1>8, <1>3
  <2>2. /\ q3 \in Seq(Statements) /\ Len(q3) = Len(q2) + Len(p3)
        /\ \A i \in 1 .. Len(q2) : q3[i] = q2[i]
        /\ \A i \in 1 .. Len(p3) : q3[Len(q2) + i] = p3[i]
    BY <2>1, Joined
  <2> HIDE DEF q3
  <2> QED
    BY <1>8, <1>3, <2>2
<1> HIDE DEF q3
<1>10. /\ q4 \in Seq(Statements) /\ Len(q4) = 10
       /\ \A i \in 1 .. 6 : q4[i] = q3[i]
       /\ \A i \in 1 .. 4 : q4[6 + i] = p4[i]
  <2>1. q3 \in Seq(Statements) /\ p4 \in Seq(Statements)
    BY <1>9, <1>4
  <2>2. /\ q4 \in Seq(Statements) /\ Len(q4) = Len(q3) + Len(p4)
        /\ \A i \in 1 .. Len(q3) : q4[i] = q3[i]
        /\ \A i \in 1 .. Len(p4) : q4[Len(q3) + i] = p4[i]
    BY <2>1, Joined
  <2> HIDE DEF q4
  <2> QED
    BY <1>9, <1>4, <2>2
<1> HIDE DEF q4
<1>11. /\ q5 \in Seq(Statements) /\ Len(q5) = 23
       /\ \A i \in 1 .. 10 : q5[i] = q4[i]
       /\ \A i \in 1 .. 13 : q5[10 + i] = p5[i]
  <2>1. q4 \in Seq(Statements) /\ p5 \in Seq(Statements)
    BY <1>10, <1>5
  <2>2. /\ q5 \in Seq(Statements) /\ Len(q5) = Len(q4) + Len(p5)
        /\ \A i \in 1 .. Len(q4) : q5[i] = q4[i]
        /\ \A i \in 1 .. Len(p5) : q5[Len(q4) + i] = p5[i]
    BY <2>1, Joined
  <2> HIDE DEF q5
  <2> QED
    BY <1>10, <1>5, <2>2
<1> HIDE DEF q5
<1>12. /\ q6 \in Seq(Statements) /\ Len(q6) = 48
       /\ \A i \in 1 .. 23 : q6[i] = q5[i]
       /\ \A i \in 1 .. 25 : q6[23 + i] = p6[i]
  <2>1. q5 \in Seq(Statements) /\ p6 \in Seq(Statements)
    BY <1>11, <1>6
  <2>2. /\ q6 \in Seq(Statements) /\ Len(q6) = Len(q5) + Len(p6)
        /\ \A i \in 1 .. Len(q5) : q6[i] = q5[i]
        /\ \A i \in 1 .. Len(p6) : q6[Len(q5) + i] = p6[i]
    BY <2>1, Joined
  <2> HIDE DEF q6
  <2> QED
    BY <1>11, <1>6, <2>2
<1> HIDE DEF q6
<1>13. q6[1] = <<"database", "new">>
  BY <1>1, <1>8, <1>9, <1>10, <1>11, <1>12
<1>14. \A i \in 1 .. 3 : q6[1 + i] = <<"type", SpecialTypes[i]>>
  <2> TAKE i \in 1 .. 3
  <2>1. 1 + i \in 1 .. 4 /\ 1 + i \in 1 .. 6 /\ 1 + i \in 1 .. 10 /\ 1 + i \in 1 .. 23
    OBVIOUS
  <2> QED
    <3>1. q2[1 + i] = p2[i] /\ q3[1 + i] = q2[1 + i]
      BY <1>8, <1>9, <2>1
    <3>2. q4[1 + i] = q3[1 + i] /\ q5[1 + i] = q4[1 + i] /\ q6[1 + i] = q5[1 + i]
      BY <1>10, <1>11, <1>12, <2>1
    <3> QED
      BY <1>2, <3>1, <3>2
<1>15. q6[5] = <<"enum", "chain_name">> /\ q6[6] = <<"value", c>>
  <2>1. q3[4 + 1] = p3[1] /\ q3[4 + 2] = p3[2]
    BY <1>9
  <2>2. q3[5] = p3[1] /\ q3[6] = p3[2]
    BY <2>1
  <2>3. /\ 5 \in 1 .. 6 /\ 5 \in 1 .. 10 /\ 5 \in 1 .. 23
        /\ 6 \in 1 .. 6 /\ 6 \in 1 .. 10 /\ 6 \in 1 .. 23
    OBVIOUS
  <2> QED
    <3>1. q4[5] = q3[5] /\ q5[5] = q4[5] /\ q6[5] = q5[5]
      BY <1>10, <1>11, <1>12, <2>3
    <3>2. q4[6] = q3[6] /\ q5[6] = q4[6] /\ q6[6] = q5[6]
      BY <1>10, <1>11, <1>12, <2>3
    <3> QED
      BY <1>3, <2>2, <3>1, <3>2
<1>16. \A i \in 1 .. 4 : q6[6 + i] = <<"table", RegularTables[i]>>
  <2> TAKE i \in 1 .. 4
  <2>1. 6 + i \in 1 .. 10 /\ 6 + i \in 1 .. 23
    OBVIOUS
  <2> QED
    <3>1. q4[6 + i] = p4[i] /\ q5[6 + i] = q4[6 + i] /\ q6[6 + i] = q5[6 + i]
      BY <1>10, <1>11, <1>12, <2>1
    <3> QED
      BY <1>4, <3>1
<1>17. \A i \in 1 .. 13 : q6[10 + i] = <<"hypertable", Hypertables[i]>>
  <2> TAKE i \in 1 .. 13
  <2>1. 10 + i \in 1 .. 23
    OBVIOUS
  <2> QED
    <3>1. q5[10 + i] = p5[i] /\ q6[10 + i] = q5[10 + i]
      BY <1>11, <1>12, <2>1
    <3> QED
      BY <1>5, <3>1
<1>18. \A i \in 1 .. 25 : q6[23 + i] = AggregateStatements[i]
  BY <1>12 DEF p6
<1>19. q6[2] = <<"type", "amount">> /\ q6[3] = <<"type", "attribute">> /\ q6[4] = <<"type", "event">>
  <2>1. \A n : \A i \in 1 .. 3 : n = 1 + i => q6[n] = <<"type", SpecialTypes[i]>>
    BY <1>14
  <2>2. 1 \in 1 .. 3 /\ 2 \in 1 .. 3 /\ 3 \in 1 .. 3 /\ 2 = 1 + 1 /\ 3 = 1 + 2 /\ 4 = 1 + 3
    OBVIOUS
  <2>3. SpecialTypes[1] = "amount" /\ SpecialTypes[2] = "attribute" /\ SpecialTypes[3] = "event"
    BY DEF SpecialTypes
  <2> QED
    BY <2>1, <2>2, <2>3, Zenon
<1>20. q6[11] = <<"hypertable", "blocks">>
  <2>1. \A n : \A i \in 1 .. 13 : n = 10 + i => q6[n] = <<"hypertable", Hypertables[i]>>
    BY <1>17
  <2>2. 1 \in 1 .. 13 /\ 11 = 10 + 1
    OBVIOUS
  <2>3. Hypertables[1] = "blocks"
    BY DEF Hypertables
  <2> QED
    BY <2>1, <2>2, <2>3, Zenon
<1> QED
  BY <1>7, <1>12, <1>13, <1>15, <1>16, <1>17, <1>18, <1>19, <1>20 DEF ScriptPlaces

\* What the proofs below use of a script: the first statement makes the database, the
\* second the type amount, one makes a hypertable; only the enum's value depends on the
\* chain.
LEMMA ScriptShape ==
    ASSUME NEW c \in Chains
    PROVE  /\ Len(Script[c]) = 48
           /\ Script[c][1] = <<"database", "new">> /\ Script[c][2] = <<"type", "amount">>
           /\ Script[c][11][1] = "hypertable"
           /\ \A i \in 1 .. 48 :
                /\ Script[c][i][1] = "value" => Script[c][i][2] = c
                /\ Script[c][i][1] # "value" => \A d \in Chains : Script[d][i] = Script[c][i]
<1>1. ScriptPlaces(Script[c], c)
  BY ScriptFacts
<1>2. Len(Script[c]) = 48
  BY ScriptFacts
<1>3. Script[c][1] = <<"database", "new">> /\ Script[c][2] = <<"type", "amount">>
  BY <1>1 DEF ScriptPlaces
<1>4. Script[c][11][1] = "hypertable"
  BY <1>1 DEF ScriptPlaces
<1>5. ASSUME NEW i \in 1 .. 48, NEW d \in Chains
      PROVE  i # 6 => Script[d][i] = Script[c][i] /\ Script[c][i][1] # "value"
  <2>0. ScriptPlaces(Script[d], d)
    BY ScriptFacts
  <2>1. ASSUME NEW e \in Chains
        PROVE  /\ Script[e][1] = <<"database", "new">>
               /\ Script[e][2] = <<"type", "amount">> /\ Script[e][3] = <<"type", "attribute">>
               /\ Script[e][4] = <<"type", "event">> /\ Script[e][5] = <<"enum", "chain_name">>
    BY ScriptFacts DEF ScriptPlaces
  <2>2. /\ Script[c][1] = Script[d][1] /\ Script[c][2] = Script[d][2] /\ Script[c][3] = Script[d][3]
        /\ Script[c][4] = Script[d][4] /\ Script[c][5] = Script[d][5]
        /\ Script[c][1][1] # "value" /\ Script[c][2][1] # "value" /\ Script[c][3][1] # "value"
        /\ Script[c][4][1] # "value" /\ Script[c][5][1] # "value"
    BY <2>1
  <2>3. CASE i = 1 \/ i = 2 \/ i = 3 \/ i = 4 \/ i = 5
    BY <2>2, <2>3
  <2>4. CASE i \in 7 .. 10
    <3> DEFINE j == i - 6
    <3>1. j \in 1 .. 4 /\ i = 6 + j
      BY <2>4
    <3> HIDE DEF j
    <3>2. Script[c][6 + j] = <<"table", RegularTables[j]>> /\ Script[d][6 + j] = <<"table", RegularTables[j]>>
      BY <1>1, <2>0, <3>1 DEF ScriptPlaces
    <3> QED
      BY <3>1, <3>2
  <2>5. CASE i \in 11 .. 23
    <3> DEFINE j == i - 10
    <3>1. j \in 1 .. 13 /\ i = 10 + j
      BY <2>5
    <3> HIDE DEF j
    <3>2. /\ Script[c][10 + j] = <<"hypertable", Hypertables[j]>>
          /\ Script[d][10 + j] = <<"hypertable", Hypertables[j]>>
      BY <1>1, <2>0, <3>1 DEF ScriptPlaces
    <3> QED
      BY <3>1, <3>2
  <2>6. CASE i \in 24 .. 48
    <3> DEFINE j == i - 23
    <3>1. j \in 1 .. 25 /\ i = 23 + j
      BY <2>6
    <3> HIDE DEF j
    <3>2. Script[c][i] = AggregateStatements[j] /\ Script[d][i] = AggregateStatements[j]
      BY <1>1, <2>0, <3>1 DEF ScriptPlaces
    <3>3. PICK v \in 1 .. 5, n \in 1 .. 5 : AggregateStatements[j] = ViewStatements(AllAggregates[v])[n]
      BY <3>1, AggregateFacts
    <3>4. ViewStatements(AllAggregates[v])[n][1] # "value"
      <4>1. n = 1 \/ n = 2 \/ n = 3 \/ n = 4 \/ n = 5
        OBVIOUS
      <4> QED
        BY <4>1 DEF ViewStatements
    <3> QED
      BY <3>2, <3>3, <3>4
  <2> QED
    BY <2>3, <2>4, <2>5, <2>6
<1>6. Script[c][6] = <<"value", c>>
  BY <1>1 DEF ScriptPlaces
<1>7. ASSUME NEW i \in 1 .. 48
      PROVE  /\ Script[c][i][1] = "value" => Script[c][i][2] = c
             /\ Script[c][i][1] # "value" => \A d \in Chains : Script[d][i] = Script[c][i]
  <2>1. CASE i = 6
    BY <1>6, <2>1
  <2>2. CASE i # 6
    BY <1>5, <2>2
  <2> QED
    BY <2>1, <2>2
<1> QED
  BY <1>2, <1>3, <1>4, <1>7

\* The order of the lists: what a statement needs comes before it.
LEMMA ScriptOrder ==
    ASSUME NEW c \in Chains, NEW i \in 1 .. 48, NEW o \in Needs(Script[c][i])
    PROVE  \E j \in 1 .. 48 : j < i /\ Script[c][j] = o
<1> DEFINE s == Script[c]
<1>1. ScriptPlaces(s, c)
  BY ScriptFacts
<1> HIDE DEF s
<1>2. /\ s[1] = <<"database", "new">>
      /\ s[2] = <<"type", "amount">> /\ s[3] = <<"type", "attribute">> /\ s[4] = <<"type", "event">>
      /\ s[5] = <<"enum", "chain_name">> /\ s[6] = <<"value", c>>
  BY <1>1 DEF ScriptPlaces
<1>3. o \in Needs(s[i])
  BY DEF s
<1>4. CASE i = 1 \/ i = 2 \/ i = 3 \/ i = 5
  <2>1. Needs(s[i]) = {}
    BY <1>2, <1>4 DEF Needs
  <2> QED
    BY <1>3, <2>1
<1>5. CASE i = 4
  <2>1. o = s[3]
    BY <1>2, <1>3, <1>5 DEF Needs
  <2> QED
    BY <1>5, <2>1 DEF s
<1>6. CASE i = 6
  <2>1. o = s[5]
    BY <1>2, <1>3, <1>6 DEF Needs
  <2> QED
    BY <1>6, <2>1 DEF s
<1>7. CASE i \in 7 .. 23
  <2>1. \E t : s[i] = <<"table", t>> \/ s[i] = <<"hypertable", t>>
    <3>1. CASE i \in 7 .. 10
      <4> DEFINE j == i - 6
      <4>1. j \in 1 .. 4 /\ i = 6 + j
        BY <3>1
      <4> HIDE DEF j
      <4> QED
        BY <1>1, <4>1 DEF ScriptPlaces
    <3>2. CASE i \in 11 .. 23
      <4> DEFINE j == i - 10
      <4>1. j \in 1 .. 13 /\ i = 10 + j
        BY <3>2
      <4> HIDE DEF j
      <4> QED
        BY <1>1, <4>1 DEF ScriptPlaces
    <3> QED
      BY <1>7, <3>1, <3>2
  <2>2. PICK t : s[i] = <<"table", t>> \/ s[i] = <<"hypertable", t>>
    BY <2>1
  <2>3. o \in TypesOf(t)
    BY <1>3, <2>2 DEF Needs
  <2>4. o = s[5] \/ o = s[2] \/ o = s[4]
    BY <1>2, <2>3 DEF TypesOf
  <2> QED
    BY <1>7, <2>4 DEF s
<1>8. CASE i \in 24 .. 48
  <2> DEFINE a == i - 23
  <2>1. a \in 1 .. 25 /\ i = 23 + a
    BY <1>8
  <2> HIDE DEF a
  <2>2. PICK v \in 1 .. 5, n \in 1 .. 5 :
          a = 5 * (v - 1) + n /\ AggregateStatements[a] = ViewStatements(AllAggregates[v])[n]
    BY <2>1, AggregateFacts
  <2>3. s[i] = ViewStatements(AllAggregates[v])[n]
    BY <1>1, <2>1, <2>2 DEF ScriptPlaces
  <2> DEFINE name == AllAggregates[v]
  <2>4. CASE n = 1
    <3>1. name \in ToSet(AllAggregates)
      BY DEF AllAggregates, ToSet
    <3>2. s[i] = <<"view", name>>
      BY <2>3, <2>4 DEF ViewStatements
    <3>3. o = <<"hypertable", FromTable[name]>>
      BY <1>3, <3>2 DEF Needs
    <3>4. \E h \in 1 .. 13 : FromTable[name] = Hypertables[h]
      <4>1. /\ Hypertables[1] = "blocks" /\ Hypertables[2] = "validator_block_signing"
            /\ Hypertables[3] = "address_tx" /\ Hypertables[4] = "transaction_general"
        BY DEF Hypertables
      <4>2. name \in {"tx_counter", "fee_volume", "daily_active_accounts",
                      "validator_signing_counter", "block_counter"}
        BY DEF AllAggregates
      <4> HIDE DEF name
      <4>3. FromTable[name] \in {"blocks", "validator_block_signing", "address_tx", "transaction_general"}
        BY <3>1, <4>2 DEF FromTable
      <4> QED
        BY <4>1, <4>3
    <3>5. PICK h \in 1 .. 13 : FromTable[name] = Hypertables[h]
      BY <3>4
    <3>6. s[10 + h] = o
      BY <1>1, <3>3, <3>5 DEF ScriptPlaces
    <3>7. 10 + h \in 1 .. 48 /\ 10 + h < i
      BY <1>8
    <3> QED
      BY <3>6, <3>7 DEF s
  <2>5. CASE n # 1
    <3> DEFINE View(k) == s[23 + (5 * (v - 1) + k)]
    <3>1. ASSUME NEW k \in 1 .. 5 PROVE View(k) = ViewStatements(name)[k]
      <4> DEFINE b == 5 * (v - 1) + k
      <4>1. b \in 1 .. 25
        OBVIOUS
      <4>2. AggregateStatements[b] = ViewStatements(AllAggregates[v])[k]
        <5> HIDE DEF b
        <5>1. PICK w \in 1 .. 5, m \in 1 .. 5 :
                b = 5 * (w - 1) + m /\ AggregateStatements[b] = ViewStatements(AllAggregates[w])[m]
          BY <4>1, AggregateFacts
        <5>2. w = v /\ m = k
          BY <5>1 DEF b
        <5> QED
          BY <5>1, <5>2
      <4> HIDE DEF b
      <4>3. s[23 + b] = AggregateStatements[b]
        BY <1>1, <4>1 DEF ScriptPlaces
      <4> QED
        BY <4>2, <4>3 DEF b
    <3>2. /\ View(1) = <<"view", name>> /\ View(2) = <<"columnstore", name>>
          /\ View(3) = <<"policy", name>>
      BY <3>1 DEF ViewStatements
    <3>3. s[i] = ViewStatements(name)[n]
      BY <2>3
    <3> HIDE DEF name, View
    <3>4. \/ n = 2 /\ s[i] = <<"columnstore", name>>
          \/ n = 3 /\ s[i] = <<"policy", name>>
          \/ n = 4 /\ s[i] = <<"interval", name>>
          \/ n = 5 /\ s[i] = <<"realtime", name>>
      BY <2>5, <3>3 DEF ViewStatements
    <3>5. \/ o = View(1)
          \/ n = 4 /\ (o = View(2) \/ o = View(3))
      BY <1>3, <3>2, <3>4 DEF Needs, SettingsNeed
    <3>6. ASSUME NEW k \in 1 .. 5, k < n, o = View(k) PROVE \E j \in 1 .. 48 : j < i /\ Script[c][j] = o
      <4> DEFINE j == 23 + (5 * (v - 1) + k)
      <4>1. j \in 1 .. 48 /\ j < i
        BY <2>1, <2>2, <3>6
      <4>2. s[j] = o
        BY <3>6 DEF View
      <4> HIDE DEF j
      <4> QED
        BY <4>1, <4>2 DEF s
    <3> QED
      BY <2>5, <3>5, <3>6
  <2> QED
    BY <2>4, <2>5
<1> QED
  BY <1>4, <1>5, <1>6, <1>7, <1>8

-----------------------------------------------------------------------------
(* create-db and create-user: the invariant *)

TheDatabase == <<"database", "new">>
FirstType == <<"type", "amount">>

\* The domains of the functions.
SetupTypes ==
    /\ version \in Versions /\ chain \in [Runs -> Chains]
    /\ at \in [Runs -> Nat]
    /\ outcome \in [Runs -> {"unstarted", "running", "skipped", "created", "exists",
                             "missing", "unsupported", "lost"}]
    /\ DOMAIN access = Users /\ DOMAIN report = Users /\ DOMAIN command = Users
    /\ \A u \in Users : command[u].privilege \in {"none", "reader", "writer", "keymgr"}

\* The objects in the new database: whoever made the type amount made all the rest, put
\* its own chain into the enum, and made hypertables only of a version that has them.
MadeInv ==
    /\ \A o \in schema \ {TheDatabase} :
         /\ FirstType \in schema /\ made[o] = made[FirstType] /\ made[o] \in Runs
         /\ o[1] = "value" => o[2] = chain[made[o]]
    /\ \A o \in schema : o[1] = "hypertable" => IsModernVersion(version)

\* How far the runs are: what a run has sent is there, and a run that is past the type
\* amount is the one that made it.
RunsInv ==
    \A r \in Runs :
        /\ outcome[r] = "running" => at[r] \in 1 .. 48
        /\ outcome[r] = "running" =>
             \A j \in 1 .. 48 : j < at[r] => Script[chain[r]][j] \in schema
        /\ outcome[r] = "running" /\ at[r] > 2 => made[FirstType] = r
        /\ outcome[r] = "created" => \A j \in 1 .. 48 : Script[chain[r]][j] \in schema
        /\ outcome[r] # "missing"
        /\ outcome[r] = "unsupported" => ~IsModernVersion(version)

\* What users may read exists, and is what was reported to them.
UsersInv ==
    \A u \in Users :
        /\ access[u] \subseteq Relations
        /\ report[u] \in {"reader", "writer", "keymgr"} => TableNames(report[u]) \subseteq access[u]

SetupInv == SetupTypes /\ MadeInv /\ RunsInv /\ UsersInv

\* Objects are never dropped: what users could read stays there.
LEMMA UsersStay ==
    ASSUME UsersInv, schema \subseteq schema', access' = access, report' = report
    PROVE  UsersInv'
<1>1. Relations \subseteq Relations'
  BY DEF Relations
<1> QED
  BY <1>1 DEF UsersInv

\* A statement that a run sends finds what it needs.
LEMMA NothingMissing ==
    ASSUME SetupInv, NEW r \in Runs, outcome[r] = "running"
    PROVE  Needs(Statement(r)) \subseteq schema
<1>1. chain[r] \in Chains /\ at[r] \in 1 .. 48
  BY DEF SetupInv, SetupTypes, RunsInv
<1>2. ASSUME NEW o \in Needs(Statement(r)) PROVE o \in schema
  <2>1. o \in Needs(Script[chain[r]][at[r]])
    BY DEF Statement
  <2>2. PICK j \in 1 .. 48 : j < at[r] /\ Script[chain[r]][j] = o
    BY <1>1, <2>1, ScriptOrder
  <2> QED
    BY <2>2 DEF SetupInv, RunsInv
<1> QED
  BY <1>2

\* The server makes the object of a statement that it accepts.
LEMMA ApplyKeepsMade ==
    ASSUME SetupInv, NEW r \in Runs, outcome[r] = "running", Fulfilled(r), Apply(r),
           Statement(r) \in schema => Repeatable(Statement(r)) \/ Statement(r)[1] = "database",
           version' = version, chain' = chain
    PROVE  /\ MadeInv'
           /\ schema \subseteq schema' /\ Statement(r) \in schema'
           /\ \A o \in schema : made'[o] = made[o]
           /\ at[r] >= 2 => FirstType \in schema' /\ made'[FirstType] = r
<1> DEFINE st == Statement(r)
           i == at[r]
           c == chain[r]
<1>1. c \in Chains /\ i \in 1 .. 48 /\ st = Script[c][i]
  BY DEF SetupInv, SetupTypes, RunsInv, Statement
<1>2. /\ i = 1 => st = TheDatabase
      /\ i = 2 => st = FirstType
      /\ st[1] = "value" => st[2] = c
  BY <1>1, ScriptShape DEF TheDatabase, FirstType
<1>3. st[1] = "hypertable" => IsModernVersion(version)
  BY DEF Fulfilled
<1>4. i > 2 => FirstType \in schema /\ made[FirstType] = r
  <2>1. Script[c][2] = FirstType
    BY <1>1, ScriptShape DEF FirstType
  <2>2. i > 2 => Script[c][2] \in schema
    BY <1>1 DEF SetupInv, RunsInv
  <2>3. i > 2 => made[FirstType] = r
    BY DEF SetupInv, RunsInv
  <2> QED
    BY <2>1, <2>2, <2>3
<1>5. i = 2 => FirstType \notin schema
  <2> SUFFICES ASSUME i = 2, FirstType \in schema PROVE FALSE
    OBVIOUS
  <2>1. st = FirstType /\ st \in schema
    BY <1>2
  <2>2. ~Repeatable(FirstType) /\ FirstType[1] # "database"
    BY DEF Repeatable, FirstType
  <2> QED
    BY <2>1, <2>2
<1>6. /\ schema' = schema \cup {st}
      /\ \A o \in schema : made'[o] = made[o]
      /\ st \notin schema => made'[st] = r
  <2> HIDE DEF st
  <2>1. made' = IF st \in schema THEN made
                ELSE [o \in schema \cup {st} |-> IF o \in schema THEN made[o] ELSE r]
    BY DEF Apply, st
  <2> QED
    BY <2>1 DEF schema
<1>7. MadeInv
  BY DEF SetupInv
<1>8. i >= 2 => FirstType \in schema' /\ made'[FirstType] = r
  <2>1. CASE i = 2
    BY <1>2, <1>5, <1>6, <2>1
  <2>2. CASE i > 2
    BY <1>4, <1>6, <2>2
  <2> QED
    BY <1>1, <2>1, <2>2
<1> HIDE DEF st, i, c
<1>9. ASSUME NEW o \in schema', o # TheDatabase
      PROVE  /\ FirstType \in schema' /\ made'[o] = made'[FirstType] /\ made'[o] \in Runs
             /\ o[1] = "value" => o[2] = chain[made'[o]]
  <2>1. CASE o \in schema
    BY <1>6, <1>7, <1>9, <2>1 DEF MadeInv
  <2>2. CASE o \notin schema
    <3>1. o = st /\ made'[o] = r
      BY <1>6, <2>2
    <3>2. i >= 2
      BY <1>1, <1>2, <1>9, <3>1
    <3> QED
      BY <1>2, <1>8, <3>1, <3>2 DEF c
  <2> QED
    BY <2>1, <2>2
<1>10. \A o \in schema' : o[1] = "hypertable" => IsModernVersion(version)
  BY <1>3, <1>6, <1>7 DEF MadeInv
<1>11. MadeInv'
  BY <1>9, <1>10 DEF MadeInv
<1> QED
  BY <1>6, <1>8, <1>11 DEF st, i

\* What a step does to the runs it does not take: their statements stay there.
LEMMA OthersStay ==
    ASSUME SetupInv, NEW r \in Runs, NEW q \in Runs, q # r,
           schema \subseteq schema', \A o \in schema : made'[o] = made[o],
           at'[q] = at[q], outcome'[q] = outcome[q], chain' = chain, version' = version
    PROVE  /\ outcome'[q] = "running" => at'[q] \in 1 .. 48
           /\ outcome'[q] = "running" =>
                \A j \in 1 .. 48 : j < at'[q] => Script[chain'[q]][j] \in schema'
           /\ outcome'[q] = "running" /\ at'[q] > 2 => made'[FirstType] = q
           /\ outcome'[q] = "created" => \A j \in 1 .. 48 : Script[chain'[q]][j] \in schema'
           /\ outcome'[q] # "missing"
           /\ outcome'[q] = "unsupported" => ~IsModernVersion(version')
<1>1. /\ outcome[q] = "running" => at[q] \in 1 .. 48
      /\ outcome[q] = "running" => \A j \in 1 .. 48 : j < at[q] => Script[chain[q]][j] \in schema
      /\ outcome[q] = "running" /\ at[q] > 2 => made[FirstType] = q
      /\ outcome[q] = "created" => \A j \in 1 .. 48 : Script[chain[q]][j] \in schema
      /\ outcome[q] # "missing"
      /\ outcome[q] = "unsupported" => ~IsModernVersion(version)
  BY DEF SetupInv, RunsInv
<1>2. outcome[q] = "running" /\ at[q] > 2 => FirstType \in schema
  <2>1. Script[chain[q]][2] = FirstType
    BY ScriptShape DEF SetupInv, SetupTypes, FirstType
  <2>2. outcome[q] = "running" /\ at[q] > 2 => Script[chain[q]][2] \in schema
    BY <1>1
  <2> QED
    BY <2>1, <2>2
<1> QED
  BY <1>1, <1>2

LEMMA RunStarts ==
    ASSUME SetupInv, NEW r \in Runs, CreateDatabaseSetup(r)
    PROVE  SetupInv'
<1>1. /\ version' = version /\ made' = made /\ chain' = chain
      /\ roles' = roles /\ access' = access /\ command' = command /\ report' = report
  BY DEF CreateDatabaseSetup, userVars
<1>2. /\ \A q \in Runs : q # r => at'[q] = at[q] /\ outcome'[q] = outcome[q]
      /\ (outcome'[r] = "running" /\ at'[r] = 1) \/ outcome'[r] = "skipped"
      /\ SetupTypes'
  BY <1>1 DEF CreateDatabaseSetup, Ends, SetupInv, SetupTypes
<1>3. schema' = schema
  BY <1>1 DEF schema
<1>4. MadeInv'
  BY <1>1, <1>3 DEF SetupInv, MadeInv
<1>5. RunsInv'
  <2> SUFFICES ASSUME NEW q \in Runs
               PROVE  /\ outcome'[q] = "running" => at'[q] \in 1 .. 48
                      /\ outcome'[q] = "running" =>
                           \A j \in 1 .. 48 : j < at'[q] => Script[chain'[q]][j] \in schema'
                      /\ outcome'[q] = "running" /\ at'[q] > 2 => made'[FirstType] = q
                      /\ outcome'[q] = "created" =>
                           \A j \in 1 .. 48 : Script[chain'[q]][j] \in schema'
                      /\ outcome'[q] # "missing"
                      /\ outcome'[q] = "unsupported" => ~IsModernVersion(version')
    BY DEF RunsInv
  <2>1. CASE q = r
    BY <1>2, <2>1
  <2>2. CASE q # r
    BY <1>1, <1>2, <1>3, <2>2, OthersStay
  <2> QED
    BY <2>1, <2>2
<1>6. UsersInv'
  BY <1>1, <1>3, UsersStay DEF SetupInv
<1> QED
  BY <1>2, <1>4, <1>5, <1>6 DEF SetupInv

LEMMA StatementSucceeds ==
    ASSUME SetupInv, NEW r \in Runs, Succeeds(r)
    PROVE  SetupInv'
<1>1. /\ version' = version /\ chain' = chain /\ outcome[r] = "running"
      /\ access' = access /\ command' = command /\ report' = report
  BY DEF Succeeds, userVars
<1>2. /\ MadeInv' /\ schema \subseteq schema' /\ Statement(r) \in schema'
      /\ \A o \in schema : made'[o] = made[o]
      /\ at[r] >= 2 => FirstType \in schema' /\ made'[FirstType] = r
  <2>1. /\ Fulfilled(r) /\ Apply(r)
        /\ Statement(r) \in schema => Repeatable(Statement(r)) \/ Statement(r)[1] = "database"
    BY DEF Succeeds
  <2> QED
    BY <1>1, <2>1, ApplyKeepsMade
<1>3. /\ chain[r] \in Chains /\ at[r] \in 1 .. 48 /\ Len(Script[chain[r]]) = 48
      /\ \A j \in 1 .. 48 : j < at[r] => Script[chain[r]][j] \in schema
  <2>1. chain[r] \in Chains /\ at[r] \in 1 .. 48
        /\ \A j \in 1 .. 48 : j < at[r] => Script[chain[r]][j] \in schema
    BY <1>1 DEF SetupInv, SetupTypes, RunsInv
  <2> QED
    BY <2>1, ScriptShape
<1>4. /\ \A q \in Runs : q # r => at'[q] = at[q] /\ outcome'[q] = outcome[q]
      /\ \/ at[r] = 48 /\ outcome'[r] = "created"
         \/ at[r] # 48 /\ outcome'[r] = "running" /\ at'[r] = at[r] + 1
      /\ SetupTypes'
  BY <1>1, <1>3 DEF Succeeds, Ends, SetupInv, SetupTypes
<1>5. \A j \in 1 .. 48 : j <= at[r] => Script[chain[r]][j] \in schema'
  BY <1>2, <1>3 DEF Statement
<1>6. RunsInv'
  <2> SUFFICES ASSUME NEW q \in Runs
               PROVE  /\ outcome'[q] = "running" => at'[q] \in 1 .. 48
                      /\ outcome'[q] = "running" =>
                           \A j \in 1 .. 48 : j < at'[q] => Script[chain'[q]][j] \in schema'
                      /\ outcome'[q] = "running" /\ at'[q] > 2 => made'[FirstType] = q
                      /\ outcome'[q] = "created" =>
                           \A j \in 1 .. 48 : Script[chain'[q]][j] \in schema'
                      /\ outcome'[q] # "missing"
                      /\ outcome'[q] = "unsupported" => ~IsModernVersion(version')
    BY DEF RunsInv
  <2>1. CASE q = r /\ at[r] = 48
    BY <1>1, <1>3, <1>4, <1>5, <2>1
  <2>2. CASE q = r /\ at[r] # 48
    <3>1. at'[r] \in 1 .. 48 /\ outcome'[r] = "running" /\ at'[r] = at[r] + 1
      BY <1>3, <1>4, <2>2
    <3>2. \A j \in 1 .. 48 : j < at'[r] => Script[chain'[r]][j] \in schema'
      BY <1>1, <1>3, <1>5, <3>1
    <3>3. at'[r] > 2 => made'[FirstType] = r
      BY <1>2, <1>3, <3>1
    <3> QED
      BY <2>2, <3>1, <3>2, <3>3
  <2>3. CASE q # r
    BY <1>1, <1>2, <1>4, <2>3, OthersStay
  <2> QED
    BY <2>1, <2>2, <2>3
<1>7. UsersInv'
  BY <1>1, <1>2, UsersStay DEF SetupInv
<1> QED
  BY <1>2, <1>4, <1>6, <1>7 DEF SetupInv

\* A run that ends without success keeps the invariant, whatever it left behind.
LEMMA RunEnds ==
    ASSUME SetupInv, NEW r \in Runs, NEW how \in {"exists", "unsupported", "lost"}, Ends(r, how),
           how = "unsupported" => ~IsModernVersion(version),
           MadeInv', schema \subseteq schema', \A o \in schema : made'[o] = made[o],
           version' = version, chain' = chain,
           access' = access, command' = command, report' = report
    PROVE  SetupInv'
<1>1. /\ \A q \in Runs : q # r => at'[q] = at[q] /\ outcome'[q] = outcome[q]
      /\ outcome'[r] = how
      /\ SetupTypes'
  BY DEF Ends, SetupInv, SetupTypes
<1>2. RunsInv'
  <2> SUFFICES ASSUME NEW q \in Runs
               PROVE  /\ outcome'[q] = "running" => at'[q] \in 1 .. 48
                      /\ outcome'[q] = "running" =>
                           \A j \in 1 .. 48 : j < at'[q] => Script[chain'[q]][j] \in schema'
                      /\ outcome'[q] = "running" /\ at'[q] > 2 => made'[FirstType] = q
                      /\ outcome'[q] = "created" =>
                           \A j \in 1 .. 48 : Script[chain'[q]][j] \in schema'
                      /\ outcome'[q] # "missing"
                      /\ outcome'[q] = "unsupported" => ~IsModernVersion(version')
    BY DEF RunsInv
  <2>1. CASE q = r
    BY <1>1, <2>1
  <2>2. CASE q # r
    BY <1>1, <2>2, OthersStay
  <2> QED
    BY <2>1, <2>2
<1>3. UsersInv'
  BY UsersStay DEF SetupInv
<1> QED
  BY <1>1, <1>2, <1>3 DEF SetupInv

LEMMA StatementRejected ==
    ASSUME SetupInv, NEW r \in Runs, Rejected(r)
    PROVE  SetupInv'
<1>1. /\ version' = version /\ made' = made /\ chain' = chain /\ outcome[r] = "running"
      /\ access' = access /\ command' = command /\ report' = report
  BY DEF Rejected, userVars
<1>2. schema' = schema /\ MadeInv'
  BY <1>1 DEF SetupInv, MadeInv, schema
<1>3. Needs(Statement(r)) \subseteq schema
  BY <1>1, NothingMissing
<1>4. \/ Ends(r, "exists")
      \/ Ends(r, "unsupported") /\ ~IsModernVersion(version)
  BY <1>3 DEF Rejected
<1> QED
  BY <1>1, <1>2, <1>4, RunEnds

LEMMA StatementLost ==
    ASSUME SetupInv, NEW r \in Runs, Lost(r)
    PROVE  SetupInv'
<1>1. /\ version' = version /\ chain' = chain /\ outcome[r] = "running" /\ Ends(r, "lost")
      /\ access' = access /\ command' = command /\ report' = report
  BY DEF Lost, userVars
<1>2. CASE made' = made
  <2>1. schema' = schema /\ MadeInv'
    BY <1>1, <1>2 DEF SetupInv, MadeInv, schema
  <2> QED
    BY <1>1, <1>2, <2>1, RunEnds
<1>3. CASE Statement(r) \notin schema /\ Fulfilled(r) /\ Apply(r)
  <2>1. MadeInv' /\ schema \subseteq schema' /\ \A o \in schema : made'[o] = made[o]
    BY <1>1, <1>3, ApplyKeepsMade
  <2> QED
    BY <1>1, <2>1, RunEnds
<1> QED
  BY <1>2, <1>3 DEF Lost

\* create-user changes nothing that create-db works on.
LEMMA SetupStays ==
    ASSUME SetupInv, UNCHANGED setupVars
    PROVE  MadeInv' /\ RunsInv' /\ schema' = schema
  BY DEF setupVars, SetupInv, MadeInv, RunsInv, schema

LEMMA UserCommands ==
    ASSUME SetupInv, NEW u \in Users,
           \/ \E p \in {"reader", "writer", "keymgr"}, d \in {"postgres", "new"} : CreateUser(u, p, d)
           \/ AppointPrivileges(u) \/ CreateUserDies(u)
    PROVE  SetupInv'
<1>1. UNCHANGED setupVars
  BY DEF CreateUser, AppointPrivileges, CreateUserDies
<1>2. MadeInv' /\ RunsInv' /\ schema' = schema
  BY <1>1, SetupStays
<1>3. Relations' = Relations
  BY <1>2 DEF Relations
<1>4. SetupTypes /\ UsersInv
  BY DEF SetupInv
<1>5. ASSUME NEW p \in {"reader", "writer", "keymgr"}, NEW d, CreateUser(u, p, d)
      PROVE  SetupTypes' /\ UsersInv'
  <2>1. SetupTypes'
    BY <1>1, <1>4, <1>5 DEF CreateUser, SetupTypes, setupVars
  <2>2. access' = access /\ \A w \in Users : report'[w] = report[w] \/ report'[w] = "none"
    BY <1>4, <1>5 DEF CreateUser, SetupTypes
  <2> QED
    BY <1>3, <1>4, <2>1, <2>2 DEF UsersInv
<1>6. ASSUME AppointPrivileges(u) PROVE SetupTypes' /\ UsersInv'
  <2> DEFINE p == command[u].privilege
  <2>1. SetupTypes'
    BY <1>1, <1>4, <1>6 DEF AppointPrivileges, SetupTypes, setupVars, NoCommand
  <2>2. CASE command[u].db = "new" /\ TableNames(p) \subseteq Relations
    <3>1. /\ access' = [access EXCEPT ![u] = @ \cup TableNames(p)]
          /\ report' = [report EXCEPT ![u] = p]
      BY <1>6, <2>2 DEF AppointPrivileges
    <3>2. /\ access'[u] = access[u] \cup TableNames(p) /\ report'[u] = p
          /\ \A w \in Users : w # u => access'[w] = access[w] /\ report'[w] = report[w]
      BY <1>4, <3>1 DEF SetupTypes
    <3> HIDE DEF p
    <3> QED
      BY <1>3, <1>4, <2>1, <2>2, <3>2 DEF UsersInv
  <2>3. CASE ~(command[u].db = "new" /\ TableNames(p) \subseteq Relations)
    <3>1. access' = access /\ \A w \in Users : report'[w] = report[w] \/ report'[w] = "refused"
      BY <1>4, <1>6, <2>3 DEF AppointPrivileges, SetupTypes
    <3> QED
      BY <1>3, <1>4, <2>1, <3>1 DEF UsersInv
  <2> QED
    BY <2>2, <2>3
<1>7. ASSUME CreateUserDies(u) PROVE SetupTypes' /\ UsersInv'
  <2>1. SetupTypes'
    BY <1>1, <1>4, <1>7 DEF CreateUserDies, SetupTypes, setupVars, NoCommand
  <2>2. access' = access /\ \A w \in Users : report'[w] = report[w] \/ report'[w] = "lost"
    BY <1>4, <1>7 DEF CreateUserDies, SetupTypes
  <2> QED
    BY <1>3, <1>4, <2>1, <2>2 DEF UsersInv
<1> QED
  BY <1>2, <1>5, <1>6, <1>7 DEF SetupInv

\* The invariant of any number of runs of create-db and create-user.
THEOREM SetupInvariant == SetupSpec => []SetupInv
<1>1. SetupInit => SetupInv
  <2> SUFFICES ASSUME SetupInit PROVE SetupInv
    OBVIOUS
  <2>1. schema = {}
    BY DEF SetupInit, schema
  <2>2. SetupTypes
    BY DEF SetupInit, SetupTypes, NoCommand
  <2>3. MadeInv
    BY <2>1 DEF MadeInv
  <2>4. RunsInv /\ UsersInv
    BY DEF SetupInit, RunsInv, UsersInv
  <2> QED
    BY <2>2, <2>3, <2>4 DEF SetupInv
<1>2. SetupInv /\ [SetupNext]_allVars => SetupInv'
  <2> SUFFICES ASSUME SetupInv, [SetupNext]_allVars PROVE SetupInv'
    OBVIOUS
  <2>1. ASSUME NEW r \in Runs, CreateDatabaseSetup(r) \/ Succeeds(r) \/ Rejected(r) \/ Lost(r)
        PROVE  SetupInv'
    BY <2>1, RunStarts, StatementSucceeds, StatementRejected, StatementLost
  <2>2. ASSUME NEW u \in Users,
               \/ \E p \in {"reader", "writer", "keymgr"}, d \in {"postgres", "new"} :
                    CreateUser(u, p, d)
               \/ AppointPrivileges(u) \/ CreateUserDies(u)
        PROVE  SetupInv'
    BY <2>2, UserCommands
  <2>3. CASE UNCHANGED allVars
    <3>1. UNCHANGED setupVars /\ UNCHANGED userVars
      BY <2>3 DEF allVars, setupVars, userVars
    <3>2. MadeInv' /\ RunsInv' /\ schema' = schema
      BY <3>1, SetupStays
    <3>3. SetupTypes'
      BY <3>1 DEF SetupInv, SetupTypes, setupVars, userVars
    <3>4. UsersInv'
      BY <3>1, <3>2, UsersStay DEF SetupInv, userVars
    <3> QED
      BY <3>2, <3>3, <3>4 DEF SetupInv
  <2> QED
    BY <2>1, <2>2, <2>3 DEF SetupNext
<1> QED
  BY <1>1, <1>2, PTL DEF SetupSpec

\* What a run of create-db does to the types: the statements it sends are of its script,
\* which it never runs past.
LEMMA RunKeepsTypes ==
    ASSUME SetupInv, SetupTypeOK, NEW r \in Runs,
           CreateDatabaseSetup(r) \/ Succeeds(r) \/ Rejected(r) \/ Lost(r)
    PROVE  SetupTypeOK'
<1> DEFINE st == Statement(r)
<1>1. /\ version' = version /\ chain' = chain
      /\ roles' = roles /\ access' = access /\ command' = command /\ report' = report
  BY DEF CreateDatabaseSetup, Succeeds, Rejected, Lost, userVars
<1>2. \A q \in Runs : chain[q] \in Chains /\ Len(Script[chain[q]]) = 48 /\ at[q] \in 0 .. 48
  BY ScriptShape DEF SetupTypeOK
<1>3. outcome[r] = "running" => at[r] \in 1 .. 48 /\ st \in Objects
  <2> SUFFICES ASSUME outcome[r] = "running" PROVE at[r] \in 1 .. 48 /\ st \in Objects
    OBVIOUS
  <2>1. at[r] \in 1 .. 48
    BY DEF SetupInv, RunsInv
  <2>2. st = Script[chain[r]][at[r]] /\ DOMAIN Script[chain[r]] = 1 .. 48
    <3>1. Script[chain[r]] \in Seq(Statements) /\ Len(Script[chain[r]]) = 48
      BY <1>2, ScriptFacts
    <3> QED
      BY <3>1 DEF Statement
  <2>3. st \in ToSet(Script[chain[r]])
    BY <2>1, <2>2 DEF ToSet
  <2> QED
    BY <1>2, <2>1, <2>3 DEF Objects
<1>4. made' = made \/ (outcome[r] = "running" /\ Apply(r))
  BY DEF CreateDatabaseSetup, Succeeds, Rejected, Lost
<1>5. schema' \subseteq Objects /\ \A o \in schema' : made'[o] \in Runs
  <2>1. CASE made' = made
    BY <2>1 DEF SetupTypeOK, schema
  <2>2. CASE outcome[r] = "running" /\ Apply(r)
    <3> HIDE DEF st
    <3>1. made' = IF st \in schema THEN made
                  ELSE [o \in schema \cup {st} |-> IF o \in schema THEN made[o] ELSE r]
      BY <2>2 DEF Apply, st
    <3>2. st \in Objects
      BY <1>3, <2>2
    <3> QED
      BY <3>1, <3>2 DEF SetupTypeOK, schema
  <2> QED
    BY <1>4, <2>1, <2>2
<1>6. /\ outcome' \in [Runs -> {"unstarted", "running", "skipped", "created", "exists",
                                "missing", "unsupported", "lost"}]
      /\ \A q \in Runs : at'[q] \in 0 .. 48
  <2>1. at \in [Runs -> Nat]
    BY DEF SetupInv, SetupTypes
  <2>2. \/ outcome' = outcome
        \/ \E how \in {"running", "skipped", "created", "exists", "missing", "unsupported", "lost"} :
             outcome' = [outcome EXCEPT ![r] = how]
    BY DEF CreateDatabaseSetup, Succeeds, Rejected, Lost, Ends
  <2>3. \/ at' = at
        \/ at' = [at EXCEPT ![r] = 1]
        \/ outcome[r] = "running" /\ at[r] # 48 /\ at' = [at EXCEPT ![r] = @ + 1]
    BY <1>2 DEF CreateDatabaseSetup, Succeeds, Rejected, Lost, Ends
  <2>4. \A q \in Runs : at'[q] \in 0 .. 48
    BY <1>2, <1>3, <2>1, <2>3
  <2>5. outcome \in [Runs -> {"unstarted", "running", "skipped", "created", "exists",
                             "missing", "unsupported", "lost"}]
    BY DEF SetupTypeOK
  <2> QED
    BY <2>2, <2>4, <2>5
<1>7. losses' \in 0 .. MaxLosses
  BY DbSetupAssumption DEF SetupTypeOK, CreateDatabaseSetup, Succeeds, Rejected, Lost
<1> QED
  BY <1>1, <1>2, <1>5, <1>6, <1>7 DEF SetupTypeOK

\* create-user grants nothing but tables and views of the schema.
LEMMA UserKeepsTypes ==
    ASSUME SetupInv, SetupTypeOK, NEW u \in Users,
           \/ \E p \in {"reader", "writer", "keymgr"}, d \in {"postgres", "new"} : CreateUser(u, p, d)
           \/ AppointPrivileges(u) \/ CreateUserDies(u)
    PROVE  SetupTypeOK'
<1>1. UNCHANGED setupVars
  BY DEF CreateUser, AppointPrivileges, CreateUserDies
<1>2. /\ version' = version /\ made' = made /\ at' = at /\ outcome' = outcome /\ chain' = chain
      /\ schema' = schema
  BY <1>1 DEF setupVars, schema
<1>3. DOMAIN command = Users /\ DOMAIN report = Users
  BY DEF SetupInv, SetupTypes
<1>4. ASSUME NEW p \in {"reader", "writer", "keymgr"}, NEW d \in {"postgres", "new"},
             CreateUser(u, p, d)
      PROVE  SetupTypeOK'
  BY <1>2, <1>3, <1>4 DEF CreateUser, SetupTypeOK
<1>5. ASSUME AppointPrivileges(u) PROVE SetupTypeOK'
  <2>1. command[u].privilege \in {"reader", "writer", "keymgr"}
    BY <1>5 DEF AppointPrivileges, SetupTypeOK
  <2>2. TableNames(command[u].privilege) \subseteq AllTableNames \cup AllAggrTableNames
    <3>1. "api_keys" \in AllTableNames
      <4>1. RegularTables[3] = "api_keys" /\ 3 \in DOMAIN RegularTables
        BY DEF RegularTables
      <4> QED
        BY <4>1 DEF AllTableNames, ToSet
    <3> QED
      BY <2>1, <3>1 DEF TableNames
  <2>3. access' \in [Users -> SUBSET (AllTableNames \cup AllAggrTableNames)]
    <3>1. \/ access' = access
          \/ access' = [access EXCEPT ![u] = @ \cup TableNames(command[u].privilege)]
      BY <1>5 DEF AppointPrivileges
    <3> QED
      BY <2>2, <3>1 DEF SetupTypeOK
  <2>4. \A w \in Users : report'[w] \in {"none", "reader", "writer", "keymgr", "refused", "lost"}
    BY <1>3, <1>5, <2>1 DEF AppointPrivileges, SetupTypeOK
  <2>5. \A w \in Users : command'[w] = command[w] \/ command'[w] = NoCommand
    BY <1>3, <1>5 DEF AppointPrivileges
  <2>6. roles' = roles /\ losses' = losses
    BY <1>5 DEF AppointPrivileges
  <2> QED
    BY <1>2, <2>3, <2>4, <2>5, <2>6 DEF SetupTypeOK, NoCommand
<1>6. ASSUME CreateUserDies(u) PROVE SetupTypeOK'
  BY <1>2, <1>3, <1>6, DbSetupAssumption DEF CreateUserDies, SetupTypeOK, NoCommand
<1> QED
  BY <1>4, <1>5, <1>6

\* SetupTypeOK: in particular everything in the new database was sent by a script, and
\* nobody is ever granted more than the tables and views of the schema.
THEOREM SetupTypeCorrect == SetupSpec => []SetupTypeOK
<1>1. SetupInit => SetupTypeOK
  <2> SUFFICES ASSUME SetupInit PROVE SetupTypeOK
    OBVIOUS
  <2>1. schema = {}
    BY DEF SetupInit, schema
  <2>2. \A r \in Runs : at[r] \in 0 .. Len(Script[chain[r]]) /\ chain[r] \in Chains
    BY ScriptShape DEF SetupInit
  <2> QED
    BY <2>1, <2>2, DbSetupAssumption DEF SetupInit, SetupTypeOK, NoCommand
<1>2. SetupInv /\ SetupTypeOK /\ [SetupNext]_allVars => SetupTypeOK'
  <2> SUFFICES ASSUME SetupInv, SetupTypeOK, [SetupNext]_allVars PROVE SetupTypeOK'
    OBVIOUS
  <2>1. CASE UNCHANGED allVars
    BY <2>1 DEF allVars, userVars, SetupTypeOK, schema
  <2>2. CASE SetupNext
    BY <2>2, RunKeepsTypes, UserKeepsTypes DEF SetupNext
  <2> QED
    BY <2>1, <2>2
<1> QED
  BY <1>1, <1>2, SetupInvariant, PTL DEF SetupSpec

\* BuiltByOneRun: however many runs of create-db overlap, fail and are started again,
\* all objects of the new database but the database itself come from one of them.
THEOREM SetupBuiltByOneRun == SetupSpec => []BuiltByOneRun
<1>1. SetupInv => BuiltByOneRun
  <2> SUFFICES ASSUME SetupInv PROVE BuiltByOneRun
    OBVIOUS
  <2>1. CASE schema \ {TheDatabase} = {}
    <3>1. PICK r \in Runs : TRUE
      BY DbSetupAssumption
    <3> QED
      BY <2>1, <3>1 DEF BuiltByOneRun, TheDatabase
  <2>2. ASSUME NEW o \in schema \ {TheDatabase} PROVE BuiltByOneRun
    <3> DEFINE r == made[FirstType]
    <3>1. r \in Runs
      BY <2>2 DEF SetupInv, MadeInv
    <3>2. \A x \in schema \ {TheDatabase} : made[x] = r /\ (x[1] = "value" => x[2] = chain[r])
      BY DEF SetupInv, MadeInv
    <3> QED
      BY <3>1, <3>2 DEF BuiltByOneRun, TheDatabase
  <2> QED
    BY <2>1, <2>2
<1> QED
  BY <1>1, SetupInvariant, PTL

\* A version with two digits at most in its second and third part.
PlainVersions == \A v \in Versions : v[2] < 100 /\ v[3] < 100

\* IsModernVersion compares as the number does.
LEMMA VersionsCompare ==
    ASSUME PlainVersions, NEW v \in Versions
    PROVE  IsModernVersion(v) <=> Number(v) >= 21903
<1>1. v[1] \in Nat /\ v[2] \in Nat /\ v[3] \in Nat
  BY DbSetupAssumption
<1>2. v[2] < 100 /\ v[3] < 100
  BY DEF PlainVersions
<1> QED
  BY <1>1, <1>2 DEF IsModernVersion, Number

\* ScriptIsSound: no run of create-db ever fails because the lists of pkgs/schema are in
\* the wrong order, and none for a version from 2.19.3 on.
THEOREM SetupScriptIsSound ==
    ASSUME PlainVersions
    PROVE  SetupSpec => []ScriptIsSound
<1>1. SetupInv => ScriptIsSound
  <2> SUFFICES ASSUME SetupInv, NEW r \in Runs
               PROVE  /\ outcome[r] # "missing"
                      /\ outcome[r] = "unsupported" => Number(version) < 21903
    BY DEF ScriptIsSound
  <2>1. outcome[r] # "missing" /\ (outcome[r] = "unsupported" => ~IsModernVersion(version))
    BY DEF SetupInv, RunsInv
  <2>2. version \in Versions
    BY DEF SetupInv, SetupTypes
  <2>3. Number(version) \in Nat
    BY <2>2, DbSetupAssumption DEF Number
  <2> QED
    BY <2>1, <2>2, <2>3, VersionsCompare
<1> QED
  BY <1>1, SetupInvariant, PTL

\* CreatedIsComplete: a run that reports success has left every type, table, hypertable,
\* view and setting of the schema, on a version that has hypertables.
THEOREM SetupCreatedIsComplete ==
    ASSUME PlainVersions
    PROVE  SetupSpec => []CreatedIsComplete
<1>1. SetupInv => CreatedIsComplete
  <2> SUFFICES ASSUME SetupInv, NEW r \in Runs, outcome[r] = "created"
               PROVE  Complete(r) /\ Number(version) >= 21903
    BY DEF CreatedIsComplete
  <2>1. /\ chain[r] \in Chains /\ version \in Versions
        /\ \A j \in 1 .. 48 : Script[chain[r]][j] \in schema
    BY DEF SetupInv, SetupTypes, RunsInv
  <2>2. ASSUME NEW c \in Chains, NEW o \in ToSet(Script[c])
        PROVE  o \in schema \/ (o[1] = "value" /\ o[2] # chain[r])
    <3>1. PICK j \in 1 .. 48 : o = Script[c][j]
      <4>1. DOMAIN Script[c] = 1 .. 48
        <5>1. Script[c] \in Seq(Statements) /\ Len(Script[c]) = 48
          BY ScriptFacts
        <5> QED
          BY <5>1
      <4> QED
        BY <4>1 DEF ToSet
    <3>2. CASE o[1] # "value"
      <4>1. Script[chain[r]][j] = Script[c][j]
        BY <2>1, <3>1, <3>2, ScriptShape
      <4> QED
        BY <2>1, <3>1, <4>1
    <3>3. CASE o[1] = "value"
      <4>1. o[2] = c
        BY <3>1, <3>3, ScriptShape
      <4> QED
        BY <2>1, <3>1, <3>3, <4>1
    <3> QED
      BY <3>2, <3>3
  <2>3. Complete(r)
    BY <2>2 DEF Complete, Objects
  <2>4. IsModernVersion(version)
    <3>1. Script[chain[r]][11][1] = "hypertable" /\ Script[chain[r]][11] \in schema
      BY <2>1, ScriptShape
    <3> QED
      BY <3>1 DEF SetupInv, MadeInv
  <2> QED
    BY <2>1, <2>3, <2>4, VersionsCompare
<1> QED
  BY <1>1, SetupInvariant, PTL

\* ReportedIsGranted: what create-user reports is what the user can read, and all of it
\* exists.
THEOREM SetupReportedIsGranted == SetupSpec => []ReportedIsGranted
<1>1. SetupInv => ReportedIsGranted
  BY DEF SetupInv, UsersInv, ReportedIsGranted
<1> QED
  BY <1>1, SetupInvariant, PTL

-----------------------------------------------------------------------------
(* The end of the process: the invariant *)

\* Where the two goroutines can be together.
Stages ==
    /\ wg = IF main \in {"starting", "returned"} THEN 0 ELSE 1
    /\ main \in AtWork => last < Top /\ current = last + 1
    /\ handler # "listening" => cancelled
    /\ pool # "open" => handler = "closing"
    /\ handler \in {"cleanup", "close", "closing"} /\ ~timedOut => main \notin AtWork
    /\ exit = "main" => main = "returned"
    /\ exit = "fatal" => main = "init"
    /\ exit = "graceful" => handler = "closing"

\* What became of the rows of a height, as long as the 30 seconds have not run out.
Indexed ==
    /\ current <= last + 1
    /\ main \in {"starting", "init"} =>
          current <= 1 /\ \A s \in saved : s.height <= 1 /\ s.reason # "live_interrupted"
    /\ ~timedOut =>
          /\ \A h \in Heights : start < h /\ h <= last => rows[h] \cup lost[h] = Writers
          /\ main = "write" => \A w \in Writers :
                /\ writer[w] = "stored" => w \in rows[last + 1]
                /\ writer[w] = "failed" => w \in lost[last + 1]
    /\ SavedIsIndexed

IInv == TypeOK /\ Stages /\ Indexed

LEMMA InitInv == Init => IInv
<1> SUFFICES ASSUME Init PROVE IInv
  OBVIOUS
<1> USE ShutdownAssumption DEF Init, AtWork, Heights
<1>1. TypeOK
  <2>1. rows \in [Heights -> SUBSET Writers] /\ lost \in [Heights -> SUBSET Writers]
    <3>1. {} \in SUBSET Writers OBVIOUS
    <3>2. QED BY <3>1
  <2>2. cancelled \in BOOLEAN /\ timedOut \in BOOLEAN BY Zenon
  <2>3. writer \in [Writers -> {"idle", "ready", "holding", "stored", "failed"}] OBVIOUS
  <2>4. saved \subseteq [reason : Reasons, height : 0 .. Top] OBVIOUS
  <2>5. QED BY <2>1, <2>2, <2>3, <2>4 DEF TypeOK
<1>2. Stages BY DEF Stages
<1>3. Indexed BY DEF Indexed, SavedIsIndexed
<1>4. QED BY <1>1, <1>2, <1>3 DEF IInv

LEMMA NextInv == IInv /\ [Next]_vars => IInv'
<1> SUFFICES ASSUME IInv, [Next]_vars PROVE IInv'
  OBVIOUS
<1> USE ShutdownAssumption DEF IInv, TypeOK, Stages, Indexed, SavedIsIndexed, AtWork,
        Heights, handlerVars, mainVars, Reasons, Save, DumpState, Fails, Begins
<1>1. CASE RegisterOperation BY <1>1 DEF RegisterOperation
<1>2. CASE InitialHeight BY <1>2 DEF InitialHeight
<1>3. CASE Interrupted BY <1>3 DEF Interrupted
<1>4. CASE BeginChunk BY <1>4 DEF BeginChunk
<1>5. CASE Finished BY <1>5 DEF Finished
<1>6. CASE Fetched BY <1>6 DEF Fetched
<1>7. CASE FetchFails BY <1>7 DEF FetchFails
<1>8. CASE EndChunk
  <2>1. ASSUME ~timedOut PROVE rows[last + 1] \cup lost[last + 1] = Writers
    <3>1. main = "write" /\ last + 1 \in Heights BY <1>8 DEF EndChunk
    <3>2. rows[last + 1] \subseteq Writers /\ lost[last + 1] \subseteq Writers BY <3>1
    <3>3. \A w \in Writers : w \in rows[last + 1] \cup lost[last + 1]
      BY <1>8, <2>1, <3>1 DEF EndChunk
    <3>4. QED BY <3>2, <3>3
  <2>2. TypeOK' /\ Stages' BY <1>8 DEF EndChunk
  <2>3. Indexed' BY <1>8, <2>1 DEF EndChunk
  <2>4. QED BY <2>2, <2>3
<1>9. CASE OperationComplete BY <1>9 DEF OperationComplete
<1>10. CASE MainReturns BY <1>10 DEF MainReturns
<1>11. ASSUME NEW w \in Writers, Acquire(w) PROVE IInv' BY <1>11 DEF Acquire
<1>12. ASSUME NEW w \in Writers, Insert(w) PROVE IInv'
  <2>1. UNCHANGED <<mode, main, start, last, current, wg, handlerVars, inbox, saved, exit, signals>>
    BY <1>12 DEF Insert
  <2>2. last + 1 \in Heights BY <1>12 DEF Insert
  <2>3. /\ rows' \in [Heights -> SUBSET Writers] /\ lost' \in [Heights -> SUBSET Writers]
        /\ \A h \in Heights : rows[h] \subseteq rows'[h] /\ lost[h] \subseteq lost'[h]
    <3>1. CASE rows' = [rows EXCEPT ![last + 1] = @ \cup {w}] /\ lost' = lost BY <2>2, <3>1
    <3>2. CASE lost' = [lost EXCEPT ![last + 1] = @ \cup {w}] /\ rows' = rows BY <2>2, <3>2
    <3>3. QED BY <1>12, <3>1, <3>2 DEF Insert
  <2>4. faults' \in 0 .. MaxFaults BY <1>12 DEF Insert
  <2>5. writer' \in [Writers -> {"idle", "ready", "holding", "stored", "failed"}]
    BY <1>12 DEF Insert
  <2>6. TypeOK' BY <2>1, <2>3, <2>4, <2>5
  <2>7. Stages' BY <2>1
  <2>8. \A h \in Heights : rows[h] \cup lost[h] = Writers => rows'[h] \cup lost'[h] = Writers
    BY <2>3
  <2>9. \A v \in Writers : /\ v # w => writer'[v] = writer[v]
                           /\ writer'[w] = "stored" => w \in rows'[last + 1]
                           /\ writer'[w] = "failed" => w \in lost'[last + 1]
    BY <1>12, <2>2 DEF Insert
  <2>10. Indexed' BY <2>1, <2>2, <2>3, <2>8, <2>9
  <2>11. QED BY <2>6, <2>7, <2>10
<1>13. CASE Signal BY <1>13 DEF Signal
<1>14. CASE Receive BY <1>14 DEF Receive
<1>15. CASE OperationsDone BY <1>15 DEF OperationsDone
<1>16. CASE ShutdownTimeout BY <1>16 DEF ShutdownTimeout
<1>17. CASE OrchestratorCleanup BY <1>17 DEF OrchestratorCleanup
<1>18. CASE ClosePool BY <1>18 DEF ClosePool
<1>19. CASE GracefulExit BY <1>19 DEF GracefulExit
<1>20. CASE EmergencyExit BY <1>20 DEF EmergencyExit
<1>21. CASE UNCHANGED vars BY <1>21 DEF vars
<1>22. QED
  BY <1>1, <1>2, <1>3, <1>4, <1>5, <1>6, <1>7, <1>8, <1>9, <1>10, <1>11, <1>12, <1>13,
     <1>14, <1>15, <1>16, <1>17, <1>18, <1>19, <1>20, <1>21 DEF Next

\* IInv holds in every reachable state.
THEOREM Invariance == Spec => []IInv
  BY InitInv, NextInv, PTL DEF Spec

\* Every variable keeps its type; in particular the wait group never leaves 0 and 1.
THEOREM TypeCorrect == Spec => []TypeOK
<1>1. IInv => TypeOK BY DEF IInv
<1>2. QED BY Invariance, <1>1, PTL

\* Unless the 30 seconds ran out or SIGQUIT came, no chunk is cut short: neither
\* by the end of the process nor by the closing of the pool.
THEOREM ChunksAreFinished == Spec => []NothingCutShort
<1>1. IInv => NothingCutShort BY DEF IInv, TypeOK, Stages, NothingCutShort, AtWork
<1>2. QED BY Invariance, <1>1, PTL

\* Whichever goroutine writes a state file, before the 30 seconds are over: of the
\* heights below the one it names, every row is stored or was refused by the database.
THEOREM StateFilesAreTrue == Spec => []SavedIsIndexed
<1>1. IInv => SavedIsIndexed BY DEF IInv, TypeOK, Indexed, SavedIsIndexed
<1>2. QED BY Invariance, <1>1, PTL

=============================================================================
