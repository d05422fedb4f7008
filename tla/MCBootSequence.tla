---------------------------- MODULE MCBootSequence ----------------------------
(* BootSequence for TLC: two overlays for each board, a complete cycle of each *)
(* script (MCCameraAutoselect has all of them).                                *)
EXTENDS BootSequence

MCBoards == [rock5a |-> <<"rpi-camera-v2", "rpi-camera-v1_3">>,
             pi4    |-> <<"imx219,cam0", "ov5647,cam0">>]
================================================================================
