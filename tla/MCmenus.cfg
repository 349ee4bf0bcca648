SPECIFICATION Spec
CONSTANTS
    NDevs = 3
    Ausentes = {2}
    Geoms <- MCGeoms
    Discos <- MCDiscos
    Copias <- MCCopias
    Nueva = "nueva"
    Uso <- MCUso
    SinFs <- MCSinFs
    Medios = {"hd-media"}
    Modos = {""}
    MaxRuta = 1
    MaxSesiones = 2
    RestMbrFalla = FALSE
    UpdateFalla = FALSE
INVARIANTS TypeOK DirsMatchTable MarksSound GenRestorable RestoresOnItsTable
