-------------------------------- MODULE MCJoypad --------------------------------
(* Two lines, so each row has two buttons; two controllers, one axis. *)
EXTENDS Joypad

MCLines == {0, 1}
MCKeyboard == {<<"ssba", 0>>, <<"ssba", 1>>, <<"dpad", 0>>}
MCControls == {<<"ssba", 0>>, <<"dpad", 1>>}
MCAxes == {{<<"dpad", 0>>, <<"dpad", 1>>}}
=============================================================================
