----------------------------- MODULE MCEditorBuffer -----------------------------
(* Instances of EditorBuffer for TLC.  Schemas are alike, so one is the first; one   *)
(* tab holds a text of one byte per character, of one statement (which two edits    *)
(* delete) or two, the other one of two bytes.                                      *)
EXTENDS EditorBuffer

CONSTANTS FirstTab, FirstSchema

MCTexts == {<<"D", ";", "D">>, <<"U", ";", "D">>, <<"D">>}

MCInit ==
    /\ \E text \in {<<"D">>, <<"D", ";", "D">>} :
          content = [t \in Tabs |-> IF t = FirstTab THEN text ELSE <<"U", ";", "D">>]
    /\ active = FirstTab /\ schema = FirstSchema
    /\ BufferInit

MCSpec == MCInit /\ [][BufferNext]_bufferVars /\ WF_bufferVars(Background)
================================================================================
