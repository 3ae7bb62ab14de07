CONSTANTS
  r1 = r1
  r2 = r2
  o1 = o1
  o2 = o2
  Redes = {r1, r2}
  Mala = Mala
  Kconfig = Nada
  Nada = Nada
  Largo = Largo
  Roto = Roto
  Corto = Corto
  Formas = {1, 2, 3, 4, 5, 6, 7, 8, 9}
  Forma <- MCForma
  Descargas = {o1, o2}
  Versiones = {FALSE}
  MaxCortes = 0
  MaxFallos = 0
SPECIFICATION Spec
INVARIANT
  CargaLasGuardadas
