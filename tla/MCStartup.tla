----------------------------- MODULE MCStartup -----------------------------
EXTENDS Startup

MCUrls == [shell : {"unset", "", "text"}, file : {"unset", "text"}, flag : {"unset", "", "text"}]
MCMaxs == [shell : {"unset", "", "zero"}, file : {"unset", "two"}, flag : {"unset", "text", "zero"}]
=============================================================================
