------------------------------ MODULE MCFaceDb ------------------------------
(* Instances of FaceDb for TLC.                                            *)
EXTENDS FaceDb, TLC

\* The application without the explicit save, which never gives the lock back.
CallsButSave == AllCalls \ {"SaveFace"}

NoFailure == {}
=============================================================================
