SPECIFICATION FairSpec
CONSTANTS
    NParts = 2
    Size = 2
    PipeCap = 1
    MaxFallos = 1
    FallosDe = {"prep","port","cloner","compr","sink","feed","status","meta"}
    Medios = {"hd-media","net"}
    Acciones = {"gen","rest"}
    Cloners = {"partclone","dd"}
    Compresiones = {"none"}
    Imagenes = {0,2}
INVARIANTS TypeOK DoneBehind CleanHandover
PROPERTIES StopsAtError Termination
