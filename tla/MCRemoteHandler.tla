--------------------------- MODULE MCRemoteHandler ---------------------------
EXTENDS RemoteHandler

CONSTANTS ta, tb  \* model values: message types; ta is registered

MCTypes == {ta, tb}
MCNamed == {ta}

=============================================================================
