----------------------------- MODULE MCLauncher -----------------------------
\* One release after the installed one: the middle number decides.
EXTENDS Launcher

MCVersions == {<<0, 9, 1>>, <<0, 10, 0>>}
MCFirst == <<0, 9, 1>>
=============================================================================
