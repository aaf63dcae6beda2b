------------------------------ MODULE MCTwsClient ------------------------------
(* Small instances of TwsClient for TLC.                                      *)
EXTENDS TwsEnvProofs, TLC

\* POSITION_END is a handler without a protothread, NEXT_VALID_ID one with it.
mcFields == (9 :> 2) @@ (62 :> 1) @@ (66 :> 3)
mcMessages == {<<9, 1, 76>>, <<62, 1>>, <<66, 1, 5, 0>>, <<99, 1>>}

\* TwsEnvProofs shows StartOnce for such messages.
ASSUME WholeMessagesAssumption == WholeMessages

mcVersions == {10, 47, 76}

\* Every behaviour of the environment, and those of a disciplined one that do not read
\* freed memory.
envFull == EnvAll
envDisciplined == {"sync_error", "unknown_packet"}

\* One behaviour each: the runs that show what the code does under it.
envLateWrite == {"late_write"}
envCloseInRead == {"close_in_read"}
envBadAddress == {"bad_with_timer"}
envReinit == {"dial_open", "dial_with_timer", "enable_with_timer"}
================================================================================
