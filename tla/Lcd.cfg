SPECIFICATION FairSpec
CONSTANTS
  init_cmd <- MCinit_cmd
  test_pixels <- MCtest_pixels
  CNT_100MS = 2
  CNT_120MS = 4
  CNT_200MS = 6
  Cmds <- MCCmds
  Pixels <- MCPixels
  MaxOps = 4
INVARIANTS PanelFaithful PausesKept
PROPERTIES Served
