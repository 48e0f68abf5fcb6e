---------------------------- MODULE MCMemoryMap ----------------------------
(* MemoryMap for TLC. *)
EXTENDS MemoryMap, SequencesExt

CONSTANT MaxLines  \* lines of the map

Names == {<<>>, <<"plain">>, <<"plain", "plain">>, <<"plain", "mixed">>,
          <<"plain", "number">>, <<"plain", "number", "plain">>, <<"plain", "mixed", "mixed">>}

(* Lines 1 byte apart, of 2 bytes or, the long ones, 3. *)
MCMaps == {[i \in DOMAIN m |-> [addr |-> 4 * i, endaddr |-> 4 * i + IF m[i].long THEN 3 ELSE 2,
                                writable |-> m[i].writable, name |-> m[i].name]] :
             m \in SeqOf([writable : BOOLEAN, long : BOOLEAN, name : Names], MaxLines)}
=============================================================================
