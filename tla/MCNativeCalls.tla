--------------------------- MODULE MCNativeCalls ---------------------------
\* Ownership over every part of the native code whose calls are written down.
EXTENDS CryptoCalls, MediaCalls, Ownership

TheLibraries ==
    [crypto |-> CryptoLibrary, template |-> TemplateLibrary, codecs |-> CodecLibrary,
     canvas |-> CanvasLibrary, engine |-> EngineLibrary, video |-> VideoLibrary,
     audio |-> AudioLibrary, apple |-> AppleLibrary, stub |-> StubLibrary]
TheObjects ==
    [crypto |-> CryptoObjects, template |-> TemplateObjects, codecs |-> CodecObjects,
     canvas |-> CanvasObjects, engine |-> EngineObjects, video |-> VideoObjects,
     audio |-> AudioObjects, apple |-> AppleObjects, stub |-> StubObjects]
TheLeaks == CryptoLeaks \cup ImageLeaks
KeptMembers == {"asset"}
=============================================================================
