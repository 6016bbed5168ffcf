----------------------------- MODULE MCHotStuff ------------------------------
(***************************************************************************)
(* Finite instances of HotStuff: the blocks up to MaxRound, as nested      *)
(* records, and small committees.                                          *)
(***************************************************************************)
EXTENDS HotStuffVoting

\* Blocks are numbered.  The table of the blocks up to a round: Genesis, then
\* every block of every round on any block of an earlier one.
BlocksUpTo[r \in 0..MaxRound] ==
  IF r = 0 THEN << [round |-> 0, payload |-> {}, parent |-> 1] >>
  ELSE LET earlier == BlocksUpTo[r - 1]
       IN  FoldSet(LAMBDA b, table : Append(table, b), earlier,
                   [round : {r}, payload : SUBSET Digest,
                    parent : DOMAIN earlier])

BlockTable == BlocksUpTo[MaxRound]

MCBlock == DOMAIN BlockTable
MCGenesis == 1

AncestorsTable ==
  LET walk[i \in MCBlock] ==
        IF i = 1 THEN <<>>
        ELSE <<BlockTable[i].parent>> \o walk[BlockTable[i].parent]
  IN  [i \in MCBlock |-> walk[i]]

MCRound(b) == BlockTable[b].round
MCPayload(b) == BlockTable[b].payload
MCParent(b) == BlockTable[b].parent
MCAncestors(b) == AncestorsTable[b]

\* Committees: one authority; two whose stakes both count, or of which the first
\* alone is a quorum; three of which the last two are the smallest quorum.
OneKeys    == <<"a">>
OneStakes  == [k \in {"a"} |-> 1]
TwoKeys    == <<"a", "b">>
EqualStakes == [k \in {"a", "b"} |-> 1]
MajorStakes == [k \in {"a", "b"} |-> IF k = "a" THEN 3 ELSE 1]
ThreeKeys  == <<"a", "b", "c">>
LastStakes == [k \in {"a", "b", "c"} |-> IF k = "a" THEN 1 ELSE 2]

\* Whose timers fire, and when: all of them; those of round 2 of the last two
\* nodes; all of round 1, and with them one of round 2.
AllTimers == Authorities \X (1..MaxRound)
LastTwoTimers == {"b", "c"} \X {2}
FirstTimers == Authorities \X {1}
EarlyTimers == FirstTimers \cup {"b"} \X {2}
=============================================================================
