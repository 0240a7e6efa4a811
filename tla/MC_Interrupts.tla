---------------------------- MODULE MC_Interrupts ----------------------------
(* The SD driver's commands for the Interrupts runs.  The image has three  *)
(* blocks; writes may extend the file to four.                             *)
EXTENDS Interrupts

\* [cmd, arg, rx, tx, nblk, wib, data]
SdCmd(c, a, rx, tx, n, w, d) ==
    [cmd |-> c, arg |-> a, rx |-> rx, tx |-> tx, nblk |-> n, wib |-> w, data |-> d]

MC_SdCmds ==
    { SdCmd(17, 0, TRUE, FALSE, 0, 128, <<>>),      \* READ_SINGLE_BLOCK 0
      SdCmd(17, 3, TRUE, FALSE, 0, 128, <<>>),      \* ... block 3, past the end
      SdCmd(18, 1, TRUE, FALSE, 1, 0, <<>>),        \* READ_MULTIPLE_BLOCK 1-2
      SdCmd(24, 1, FALSE, TRUE, 0, 128, <<7>>),     \* WRITE_BLOCK 1
      SdCmd(25, 2, FALSE, TRUE, 1, 0, <<8, 9>>),    \* WRITE_MULTIPLE_BLOCK 2-3
      SdCmd(55, 0, TRUE, FALSE, 0, 2, <<>>),        \* APP_CMD, RX for an SCR
      SdCmd(51, 0, FALSE, FALSE, 0, 2, <<>>),       \* SEND_SCR (after APP_CMD)
      SdCmd(13, 0, TRUE, FALSE, 0, 16, <<>>) }      \* SEND_STATUS / SD_STATUS

\* [op, pa, start, num, data]: pa and start in 512-byte blocks.
SbdCmd(o, p, b, n, d) == [op |-> o, pa |-> p, start |-> b, num |-> n, data |-> d]

MC_SbdCmds ==
    { SbdCmd(DEVSBD_REG_CMD_RD, 0, 1, 2, <<>>),     \* blocks 1-2, to the image's end
      SbdCmd(DEVSBD_REG_CMD_RD, 0, 2, 2, <<>>),     \* blocks 2-3, off the end
      SbdCmd(DEVSBD_REG_CMD_WR, 1, 2, 1, <<5>>) }   \* block 2, the image's last
=============================================================================
