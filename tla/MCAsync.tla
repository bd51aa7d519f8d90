------------------------------- MODULE MCAsync -------------------------------
(* Small instances of AsyncWriterThread for TLC.                           *)
EXTENDS AsyncWriterThread, TLC

CONSTANTS w1, w2, w3

ThreeWriters == {w1, w2, w3}
TwoWriters == {w1, w2}
NoWriter == {}
FirstWriter == {w1}
SecondWriter == {w2}
=============================================================================
