----------------------------- MODULE MCRceServer -----------------------------
\* Two passphrases and one command, every combination of the settings.
EXTENDS RceServer

CONSTANTS open_sesame, close_sesame, reboot

MCMessage == {open_sesame, close_sesame, reboot}
MCPassphrase == {open_sesame, close_sesame}
=============================================================================
