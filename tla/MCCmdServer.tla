---------------------------- MODULE MCCmdServer ----------------------------
EXTENDS CmdServerProps
=============================================================================
